---- MODULE Spec2Model ----
(***************************************************************************)
(* SetKeyedMap (src/index.ts): a map whose keys are Sets.  The container   *)
(* holds two private structures:                                           *)
(*   valueMap      Map<K, V>     canonical key object -> value             *)
(*   subkeyToKeys  Map<KT, K[]>  element -> list of canonical key objects  *)
(* Both are JavaScript Maps keyed by identity, so Set objects are modelled *)
(* as heap objects: an object id plus the object's elements in insertion   *)
(* order (the order Array.from and for..of visit them).                    *)
(***************************************************************************)
EXTENDS Integers, Sequences, FiniteSets, TLC

(* ------------------------------ bounds --------------------------------- *)
NumElems  == 3     \* elements are 1..NumElems
NumVals   == 2     \* values are 1..NumVals
MaxKeys   == 2     \* cap on valueMap.size (guards the inserting branch of set)
MaxKeyLen == 3     \* cap on the cardinality of a candidate key

Elems == 1..NumElems
Vals  == 1..NumVals

(* --------------------------- program values ---------------------------- *)
Undefined == 0     \* `undefined`, the result of get() for a missing key
NotFound  == 0     \* `false`, the not-found result of getCannonicalKey
CallerSet == -1    \* identity of a Set object constructed by the caller

(* The elements of a Set object, whatever their insertion order. *)
Elements(s) == {s[i] : i \in DOMAIN s}

(* The Sets a caller passes in: every element set of at most MaxKeyLen     *)
(* elements, built by inserting its elements in ascending or in descending *)
(* order (a Set iterates in insertion order).                              *)
KeySeqs ==
  {s \in UNION {[1..n -> Elems] : n \in 0..MaxKeyLen} :
     \/ \A i, j \in DOMAIN s : i < j => s[i] < s[j]
     \/ \A i, j \in DOMAIN s : i < j => s[i] > s[j]}

VARIABLES
  valueMap,       \* sequence of [key |-> id, val |-> v], in Map insertion order
  subkeyToKeys,   \* function: element with a row -> sequence of key ids
  heap,           \* function: id of a live canonical Set object -> its elements
  last,           \* the last public call: [op, key, val, ret]
  before,         \* the container as it was when that call was made
  held,           \* ids of the Set objects the caller keeps a reference to
  derived,        \* a second container: [valueMap, subkeyToKeys]
  iters,          \* the iterators the caller has open: [kind, next, out, done]
  pending,        \* the writes a set or delete in progress has still to make
  loop            \* the callback loop in progress: [op, next, calls, done, ...]

vars == <<valueMap, subkeyToKeys, heap, last, before, held, derived, iters, pending, loop>>

(* ------------------------- Map / Array helpers ------------------------- *)
(* Map.prototype.has on valueMap: identity lookup. *)
MapHas(vm, k) == \E i \in DOMAIN vm : vm[i].key = k

(* Map.prototype.get on valueMap. *)
MapGet(vm, k) ==
  IF MapHas(vm, k) THEN vm[CHOOSE i \in DOMAIN vm : vm[i].key = k].val
  ELSE Undefined

(* Mutant: Map.set that never finds the key and always adds an entry. *)
MapSetAppend(vm, k, v) == Append(vm, [key |-> k, val |-> v])

(* Mutant: Map.set that moves an entry it overwrites to the last position. *)
MapSetMoveLast(vm, k, v) ==
  Append(SelectSeq(vm, LAMBDA e : e.key # k), [key |-> k, val |-> v])

(* Map.prototype.set on valueMap: an existing key keeps its position. *)
MapSet(vm, k, v) ==
  IF MapHas(vm, k)
  THEN [i \in DOMAIN vm |-> IF vm[i].key = k THEN [key |-> k, val |-> v] ELSE vm[i]]
  ELSE Append(vm, [key |-> k, val |-> v])

(* Mutant: delete() without the valueMap.delete(canonicalKey) of line 128. *)
MapDeleteNothing(vm, k) == vm

(* Map.prototype.delete on valueMap. *)
MapDelete(vm, k) == SelectSeq(vm, LAMBDA e : e.key # k)

(* Mutant: a membership test that finds every key in every row. *)
IncludesAlways(row, k) == TRUE

(* Array.prototype.includes. *)
Includes(row, k) == \E i \in DOMAIN row : row[i] = k

(* Array.prototype.sort with comparator a.length - b.length (stable). *)
RECURSIVE InsertByLength(_, _)
InsertByLength(sorted, row) ==
  IF sorted = <<>> THEN <<row>>
  ELSE IF Len(Head(sorted)) <= Len(row)
       THEN <<Head(sorted)>> \o InsertByLength(Tail(sorted), row)
       ELSE <<row>> \o sorted

RECURSIVE SortByLength(_)
SortByLength(rows) ==
  IF rows = <<>> THEN <<>>
  ELSE InsertByLength(SortByLength(SubSeq(rows, 1, Len(rows) - 1)), rows[Len(rows)])

(* ----------------------------- canonicalization ------------------------ *)
(* Mutant: the cardinality filter accepts larger keys (>= for ===). *)
FilterBySizeAtLeast(idx, hp, subkey, n) ==
  IF subkey \in DOMAIN idx
  THEN SelectSeq(idx[subkey], LAMBDA k : Len(hp[k]) >= n)
  ELSE <<>>

(* Mutant: no cardinality filter at all. *)
FilterNoSize(idx, hp, subkey, n) ==
  IF subkey \in DOMAIN idx THEN idx[subkey] ELSE <<>>

(* keys?.filter((key) => key.size === subkeys.length) ?? [] *)
FilterBySize(idx, hp, subkey, n) ==
  IF subkey \in DOMAIN idx
  THEN SelectSeq(idx[subkey], LAMBDA k : Len(hp[k]) = n)
  ELSE <<>>

(* Mutant: `some` for `every` in the membership test of line 60. *)
RECURSIVE FirstInSome(_, _, _)
FirstInSome(firstSubkeys, i, lists) ==
  IF i > Len(firstSubkeys) THEN NotFound
  ELSE IF \E j \in DOMAIN lists : Includes(lists[j], firstSubkeys[i])
       THEN firstSubkeys[i]
       ELSE FirstInSome(firstSubkeys, i + 1, lists)

(* Mutant: the first key of the first list, the other lists not consulted. *)
FirstInFirst(firstSubkeys, i, lists) ==
  IF i > Len(firstSubkeys) THEN NotFound ELSE firstSubkeys[i]

(* for (const key of firstSubkeys) if (every list includes key) return key *)
RECURSIVE FirstInEvery(_, _, _)
FirstInEvery(firstSubkeys, i, lists) ==
  IF i > Len(firstSubkeys) THEN NotFound
  ELSE IF \A j \in DOMAIN lists : Includes(lists[j], firstSubkeys[i])
       THEN firstSubkeys[i]
       ELSE FirstInEvery(firstSubkeys, i + 1, lists)

(* Mutant: a candidate without elements resolves to a stored empty key. *)
getCannonicalKeyEmpty(vm, idx, hp, ref, subkeys) ==
  IF MapHas(vm, ref) THEN ref
  ELSE IF Len(subkeys) = 0
       THEN IF \E i \in DOMAIN vm : Len(hp[vm[i].key]) = 0
            THEN vm[CHOOSE i \in DOMAIN vm : Len(hp[vm[i].key]) = 0].key
            ELSE NotFound
       ELSE LET lists == SortByLength([i \in DOMAIN subkeys |->
                            FilterBySize(idx, hp, subkeys[i], Len(subkeys))])
            IN FirstInEvery(lists[1], 1, lists)

(* getCannonicalKey(key): `ref` is the identity of the candidate Set object *)
(* and `subkeys` its elements in insertion order.                           *)
getCannonicalKey(vm, idx, hp, ref, subkeys) ==
  IF MapHas(vm, ref) THEN ref
  ELSE
    LET potentialCanonicalKeys ==
          SortByLength([i \in DOMAIN subkeys |->
                          FilterBySize(idx, hp, subkeys[i], Len(subkeys))])
    IN IF Len(potentialCanonicalKeys) = 0 THEN NotFound
       ELSE FirstInEvery(potentialCanonicalKeys[1], 1, potentialCanonicalKeys)

(* get(key) *)
get(vm, idx, hp, ref, subkeys) ==
  LET canonicalKey == getCannonicalKey(vm, idx, hp, ref, subkeys)
  IN IF canonicalKey = NotFound THEN Undefined ELSE MapGet(vm, canonicalKey)

(* has(key) *)
has(vm, idx, hp, ref, subkeys) ==
  LET canonicalKey == getCannonicalKey(vm, idx, hp, ref, subkeys)
  IN IF canonicalKey = NotFound THEN FALSE ELSE MapHas(vm, canonicalKey)

(* ---------------------------- index maintenance ------------------------ *)
(* Mutant: set() that stores the value and never fills the index (the      *)
(* defect of bug-missing-subkey-index.md).                                 *)
registerNone(idx, subkeys, i, canonicalKey) == idx

(* Mutant: a set that pushes the canonical key twice onto each row. *)
RECURSIVE registerTwice(_, _, _, _)
registerTwice(idx, subkeys, i, canonicalKey) ==
  IF i > Len(subkeys) THEN idx
  ELSE LET subkey  == subkeys[i]
           keyList == IF subkey \in DOMAIN idx THEN idx[subkey] ELSE <<>>
       IN registerTwice([e \in DOMAIN idx \cup {subkey} |->
                           IF e = subkey THEN keyList \o <<canonicalKey, canonicalKey>>
                           ELSE idx[e]],
                        subkeys, i + 1, canonicalKey)

(* set(): for (const subkey of canonicalKey) { keyList.push(canonicalKey) } *)
RECURSIVE register(_, _, _, _)
register(idx, subkeys, i, canonicalKey) ==
  IF i > Len(subkeys) THEN idx
  ELSE LET subkey  == subkeys[i]
           keyList == IF subkey \in DOMAIN idx THEN idx[subkey] ELSE <<>>
       IN register([e \in DOMAIN idx \cup {subkey} |->
                      IF e = subkey THEN Append(keyList, canonicalKey) ELSE idx[e]],
                   subkeys, i + 1, canonicalKey)

(* Mutant: delete() that writes the filtered row back even when it is empty. *)
RECURSIVE unregisterKeepEmpty(_, _, _, _)
unregisterKeepEmpty(idx, subkeys, i, canonicalKey) ==
  IF i > Len(subkeys) THEN idx
  ELSE LET subkey == subkeys[i]
       IN IF subkey \notin DOMAIN idx
          THEN unregisterKeepEmpty(idx, subkeys, i + 1, canonicalKey)
          ELSE unregisterKeepEmpty(
                 [idx EXCEPT ![subkey] = SelectSeq(idx[subkey], LAMBDA k : k # canonicalKey)],
                 subkeys, i + 1, canonicalKey)

(* Mutant: a removal that drops the whole row of each element of the key. *)
unregisterRows(idx, subkeys, i, canonicalKey) ==
  [e \in DOMAIN idx \ {subkeys[j] : j \in i..Len(subkeys)} |-> idx[e]]

(* delete(): for (const subkey of canonicalKey) { filter the row, drop it   *)
(* when it becomes empty }                                                  *)
RECURSIVE unregister(_, _, _, _)
unregister(idx, subkeys, i, canonicalKey) ==
  IF i > Len(subkeys) THEN idx
  ELSE LET subkey == subkeys[i]
       IN IF subkey \notin DOMAIN idx
          THEN unregister(idx, subkeys, i + 1, canonicalKey)
          ELSE LET newkeylist == SelectSeq(idx[subkey], LAMBDA k : k # canonicalKey)
               IN IF Len(newkeylist) > 0
                  THEN unregister([idx EXCEPT ![subkey] = newkeylist],
                                  subkeys, i + 1, canonicalKey)
                  ELSE unregister([e \in DOMAIN idx \ {subkey} |-> idx[e]],
                                  subkeys, i + 1, canonicalKey)

(* ------------------------------- the heap ------------------------------ *)
(* Ids of the Set objects still referenced by the container. *)
Referenced(vm, idx) ==
  {vm[i].key : i \in DOMAIN vm}
    \cup UNION {{idx[e][i] : i \in DOMAIN idx[e]} : e \in DOMAIN idx}

(* Object identities are only ever compared with ===, so they are kept up  *)
(* to renaming: the keys of valueMap are numbered by their position in the *)
(* Map's insertion order, any other object still referenced from a row     *)
(* follows in the order of its old id.  The renaming is injective.         *)
NewName(vm, idx, k) ==
  IF MapHas(vm, k)
  THEN CHOOSE i \in DOMAIN vm : vm[i].key = k
  ELSE Len(vm) + Cardinality({j \in Referenced(vm, idx) : ~MapHas(vm, j) /\ j <= k})

(* The container after an entry was removed: unreferenced objects are      *)
(* reclaimed and the remaining ones renamed.                               *)
RenamedMap(vm, idx) ==
  [i \in DOMAIN vm |-> [key |-> NewName(vm, idx, vm[i].key), val |-> vm[i].val]]

RenamedIndex(vm, idx) ==
  [e \in DOMAIN idx |-> [i \in DOMAIN idx[e] |-> NewName(vm, idx, idx[e][i])]]

RenamedHeap(vm, idx, hp) ==
  [n \in {NewName(vm, idx, k) : k \in Referenced(vm, idx) \cap DOMAIN hp} |->
     hp[CHOOSE k \in Referenced(vm, idx) \cap DOMAIN hp : NewName(vm, idx, k) = n]]

(* new Set(...): the identity of a newly allocated object. *)
NewId(hp) == CHOOSE k \in 1..(Cardinality(DOMAIN hp) + 1) : k \notin DOMAIN hp

(* createCanonicalKey(from): a new Set holding the elements of `from`. *)
createCanonicalKey(from) == from

(* Mutant: createCanonicalKey that stores the caller's own Set object. *)
sameObject(hp, ref) == ref

(* new Set(Array.from(from)) in createCanonicalKey: the object it returns   *)
(* is a new one, whatever object `ref` the elements are taken from.         *)
canonicalKeyObject(hp, ref) == NewId(hp)

(* Mutant: a set that registers the canonical key again when it resolves. *)
setReregister(vm, idx, hp, ref, subkeys, value) ==
  LET existingCanonicalKey == getCannonicalKey(vm, idx, hp, ref, subkeys)
      canonicalKey == IF existingCanonicalKey # NotFound THEN existingCanonicalKey
                      ELSE canonicalKeyObject(hp, ref)
      contents     == IF existingCanonicalKey # NotFound THEN hp[existingCanonicalKey]
                      ELSE createCanonicalKey(subkeys)
  IN [valueMap |-> MapSet(vm, canonicalKey, value),
      subkeyToKeys |-> register(idx, contents, 1, canonicalKey),
      heap |-> [k \in DOMAIN hp \cup {canonicalKey} |->
                  IF k = canonicalKey THEN contents ELSE hp[k]]]

(* set(key, value) on the container (vm, idx) in the heap hp: the container *)
(* and the heap afterwards.                                                 *)
set(vm, idx, hp, ref, subkeys, value) ==
  LET existingCanonicalKey == getCannonicalKey(vm, idx, hp, ref, subkeys)
  IN IF existingCanonicalKey # NotFound
     THEN [valueMap |-> MapSet(vm, existingCanonicalKey, value),
           subkeyToKeys |-> idx,
           heap |-> hp]
     ELSE LET canonicalKey == canonicalKeyObject(hp, ref)
              contents     == createCanonicalKey(subkeys)
          IN [valueMap |-> MapSet(vm, canonicalKey, value),
              subkeyToKeys |-> register(idx, contents, 1, canonicalKey),
              heap |-> [k \in DOMAIN hp \cup {canonicalKey} |->
                          IF k = canonicalKey THEN contents ELSE hp[k]]]

(* Mutant: a delete that, when the key is found, removes every entry. *)
deleteEverything(vm, idx, hp, ref, subkeys) ==
  IF getCannonicalKey(vm, idx, hp, ref, subkeys) = NotFound
  THEN [valueMap |-> vm, subkeyToKeys |-> idx, ret |-> FALSE]
  ELSE [valueMap |-> <<>>, subkeyToKeys |-> <<>>, ret |-> TRUE]

(* delete(key) on the container (vm, idx): the container afterwards and the *)
(* value returned.                                                          *)
delete(vm, idx, hp, ref, subkeys) ==
  LET canonicalKey == getCannonicalKey(vm, idx, hp, ref, subkeys)
  IN IF canonicalKey = NotFound
     THEN [valueMap |-> vm, subkeyToKeys |-> idx, ret |-> FALSE]
     ELSE [valueMap |-> MapDelete(vm, canonicalKey),
           subkeyToKeys |-> unregister(idx, hp[canonicalKey], 1, canonicalKey),
           ret |-> TRUE]

(* Mutant: a lookup that creates the rows it does not find. *)
rowsCreated(idx, subkeys) ==
  [e \in DOMAIN idx \cup Elements(subkeys) |-> IF e \in DOMAIN idx THEN idx[e] ELSE <<>>]

(* this.subkeyToKeys.get(subkey) for every subkey of a candidate: the index *)
(* after the lookups of getCannonicalKey.                                   *)
rowsRead(idx, subkeys) == idx

(* ------------------------------ operations ----------------------------- *)
Snapshot == [valueMap |-> valueMap, subkeyToKeys |-> subkeyToKeys, heap |-> heap]

EmptyContainer == [valueMap |-> <<>>, subkeyToKeys |-> <<>>]

Init ==
  /\ valueMap = <<>>
  /\ subkeyToKeys = <<>>
  /\ heap = <<>>
  /\ last = [op |-> "new", key |-> <<>>, val |-> Undefined, ret |-> Undefined]
  /\ before = [valueMap |-> <<>>, subkeyToKeys |-> <<>>, heap |-> <<>>]
  /\ held = <<>>
  /\ derived = EmptyContainer
  /\ iters = <<>>
  /\ pending = <<>>
  /\ loop = <<>>

(* set(key, value); the container it returns for chaining is not recorded. *)
Set(key, value) ==
  LET after == set(valueMap, subkeyToKeys, heap, CallerSet, key, value)
  IN /\ Len(after.valueMap) <= MaxKeys
     /\ valueMap' = after.valueMap
     /\ subkeyToKeys' = after.subkeyToKeys
     /\ heap' = after.heap
     /\ last' = [op |-> "set", key |-> key, val |-> value, ret |-> Undefined]
     /\ before' = Snapshot
     /\ UNCHANGED <<held, derived, iters, pending, loop>>

(* delete(key) *)
Delete(key) ==
  LET after == delete(valueMap, subkeyToKeys, heap, CallerSet, key)
  IN /\ IF after.ret = FALSE
        THEN UNCHANGED <<valueMap, subkeyToKeys, heap>>
        ELSE /\ subkeyToKeys' = RenamedIndex(after.valueMap, after.subkeyToKeys)
             /\ valueMap' = RenamedMap(after.valueMap, after.subkeyToKeys)
             /\ heap' = RenamedHeap(after.valueMap, after.subkeyToKeys, heap)
     /\ last' = [op |-> "delete", key |-> key, val |-> Undefined, ret |-> after.ret]
     /\ before' = Snapshot
     /\ UNCHANGED <<held, derived, iters, pending, loop>>

(* clear() *)
Clear ==
  /\ valueMap' = <<>>
  /\ subkeyToKeys' = <<>>
  /\ heap' = <<>>
  /\ last' = [op |-> "clear", key |-> <<>>, val |-> Undefined, ret |-> Undefined]
  /\ before' = Snapshot
  /\ UNCHANGED <<held, derived, iters, pending, loop>>

(* [Symbol.dispose](): this.clear() *)
Dispose ==
  /\ valueMap' = <<>>
  /\ subkeyToKeys' = <<>>
  /\ heap' = <<>>
  /\ last' = [op |-> "dispose", key |-> <<>>, val |-> Undefined, ret |-> Undefined]
  /\ before' = Snapshot
  /\ UNCHANGED <<held, derived, iters, pending, loop>>

(* get(key) *)
Get(key) ==
  /\ last' = [op |-> "get", key |-> key, val |-> Undefined,
              ret |-> get(valueMap, subkeyToKeys, heap, CallerSet, key)]
  /\ before' = Snapshot
  /\ subkeyToKeys' = rowsRead(subkeyToKeys, key)
  /\ UNCHANGED <<valueMap, heap, held, derived, iters, pending, loop>>

(* has(key) *)
Has(key) ==
  /\ last' = [op |-> "has", key |-> key, val |-> Undefined,
              ret |-> has(valueMap, subkeyToKeys, heap, CallerSet, key)]
  /\ before' = Snapshot
  /\ subkeyToKeys' = rowsRead(subkeyToKeys, key)
  /\ UNCHANGED <<valueMap, heap, held, derived, iters, pending, loop>>

Next ==
  \/ \E key \in KeySeqs, value \in Vals : Set(key, value)
  \/ \E key \in KeySeqs : Delete(key)
  \/ Clear
  \/ Dispose
  \/ \E key \in KeySeqs : Get(key)
  \/ \E key \in KeySeqs : Has(key)

Spec == Init /\ [][Next]_vars

(* ---------------------- vocabulary of the properties ------------------- *)
(* Two keys are equivalent iff they have identical element membership. *)
Equivalent(k1, k2) == Elements(k1) = Elements(k2)

(* The contents of the canonical keys valueMap holds, in a container state. *)
StoredKeys(c) == {c.heap[c.valueMap[i].key] : i \in DOMAIN c.valueMap}

(* A key with exactly the elements of `key` is stored. *)
Stored(c, key) == \E k \in StoredKeys(c) : Equivalent(k, key)

(* The results a caller gets for a Set of its own, now and before the call. *)
getNow(key) == get(valueMap, subkeyToKeys, heap, CallerSet, key)
hasNow(key) == has(valueMap, subkeyToKeys, heap, CallerSet, key)
getBefore(key) ==
  get(before.valueMap, before.subkeyToKeys, before.heap, CallerSet, key)
hasBefore(key) ==
  has(before.valueMap, before.subkeyToKeys, before.heap, CallerSet, key)
size == Len(valueMap)
sizeBefore == Len(before.valueMap)

(* C1: after set(K1, v), every key K2 with the elements of K1 (a distinct   *)
(* Set object, any insertion order) gets v and has(K2) is true.             *)
C1_EquivalenceInvariance ==
  last.op = "set" =>
    \A K2 \in KeySeqs :
      Equivalent(last.key, K2) => getNow(K2) = last.val /\ hasNow(K2)

(* C1 restricted to keys with at least one element. *)
C1_NonEmptyKeys ==
  (last.op = "set" /\ Len(last.key) > 0) =>
    \A K2 \in KeySeqs :
      Equivalent(last.key, K2) => getNow(K2) = last.val /\ hasNow(K2)

(* C2: valueMap never holds two distinct canonical keys with identical      *)
(* element membership, and a set with a key equivalent to a stored one      *)
(* does not increase size.                                                  *)
C2_UniqueCanonicalKeys ==
  /\ \A i, j \in DOMAIN valueMap :
       i # j => ~Equivalent(heap[valueMap[i].key], heap[valueMap[j].key])
  /\ (last.op = "set" /\ Stored(before, last.key)) => size = sizeBefore

C4_Overwrite ==
  (last.op = "set" /\ hasBefore(last.key)) =>
    /\ size = sizeBefore
    /\ \A K2 \in KeySeqs :
         Equivalent(last.key, K2) => getNow(K2) = last.val /\ hasNow(K2)

(* A value was replaced through a key in the other insertion order. *)
C4_Witness ==
  /\ last.op = "set" /\ hasBefore(last.key)
  /\ getBefore(last.key) # last.val
  /\ getNow(last.key) = last.val
  /\ last.key \notin StoredKeys(Snapshot)
  /\ size = 2

C6_IndexBidirectional ==
  /\ \A i \in DOMAIN valueMap : \A e \in Elems :
       (e \in DOMAIN subkeyToKeys /\ Includes(subkeyToKeys[e], valueMap[i].key))
         <=> e \in Elements(heap[valueMap[i].key])
  /\ \A e \in DOMAIN subkeyToKeys : \A n \in DOMAIN subkeyToKeys[e] :
       MapHas(valueMap, subkeyToKeys[e][n])

(* Two stored keys share an element, so its row lists both. *)
C6_Witness ==
  /\ size = 2
  /\ \E e \in DOMAIN subkeyToKeys : Len(subkeyToKeys[e]) = 2
  /\ \E e \in Elems : e \notin DOMAIN subkeyToKeys

(* C7: no row references a key removed from valueMap, no row is an empty    *)
(* list, and an element has a row iff a live canonical key contains it.     *)
C7_NoStaleOrEmptyRows ==
  /\ \A e \in DOMAIN subkeyToKeys :
       /\ Len(subkeyToKeys[e]) > 0
       /\ \A n \in DOMAIN subkeyToKeys[e] :
            \E i \in DOMAIN valueMap : valueMap[i].key = subkeyToKeys[e][n]
  /\ \A e \in Elems :
       e \in DOMAIN subkeyToKeys
         <=> \E i \in DOMAIN valueMap : e \in Elements(heap[valueMap[i].key])

(* A delete removed the last key of one row and shortened another. *)
C7_Witness ==
  /\ last.op = "delete" /\ last.ret = TRUE
  /\ size = 1
  /\ \E e \in DOMAIN before.subkeyToKeys : e \notin DOMAIN subkeyToKeys
  /\ \E e \in DOMAIN subkeyToKeys :
       Len(before.subkeyToKeys[e]) = 2 /\ Len(subkeyToKeys[e]) = 1

(* C8: for a Set with zero elements get returns undefined, has returns      *)
(* false and delete returns false, also after set(emptySet, v).             *)
C8_EmptyKeyNotFound ==
  /\ getNow(<<>>) = Undefined
  /\ ~hasNow(<<>>)
  /\ getCannonicalKey(valueMap, subkeyToKeys, heap, CallerSet, <<>>) = NotFound
  /\ (last.op = "get" /\ last.key = <<>>) => last.ret = Undefined
  /\ (last.op = "has" /\ last.key = <<>>) => last.ret = FALSE
  /\ (last.op = "delete" /\ last.key = <<>>) =>
       last.ret = FALSE /\ Snapshot = before

(* delete(emptySet) was called on a container holding an empty key. *)
C8_Witness ==
  /\ last.op = "delete" /\ last.key = <<>> /\ last.ret = FALSE
  /\ <<>> \in StoredKeys(Snapshot)
  /\ size = 2

(* C9: for a candidate with no stored key of exactly the same elements get  *)
(* returns undefined and has returns false; both return a value.            *)
C9_NotFoundIsAValue ==
  /\ \A K \in KeySeqs :
       /\ getNow(K) \in Vals \cup {Undefined}
       /\ hasNow(K) \in BOOLEAN
       /\ ~Stored(Snapshot, K) => getNow(K) = Undefined /\ ~hasNow(K)
  /\ (last.op = "get" /\ ~Stored(before, last.key)) => last.ret = Undefined
  /\ (last.op = "has" /\ ~Stored(before, last.key)) => last.ret = FALSE

(* get({1,2}) was called while {1,3} and {2,3} were stored. *)
C9_Witness ==
  /\ last.op = "get" /\ last.ret = Undefined
  /\ Elements(last.key) = {1, 2}
  /\ {Elements(k) : k \in StoredKeys(Snapshot)} = {{1, 3}, {2, 3}}

(* C10: delete of a key with no stored key of the same elements returns     *)
(* false and leaves valueMap, subkeyToKeys and size as they were.           *)
C10_DeleteAbsent ==
  (last.op = "delete" /\ ~Stored(before, last.key)) =>
    /\ last.ret = FALSE
    /\ valueMap = before.valueMap
    /\ subkeyToKeys = before.subkeyToKeys
    /\ size = sizeBefore

(* delete({1}) was called while only {1,2} and {1,3} were stored. *)
C10_Witness ==
  /\ last.op = "delete" /\ last.ret = FALSE
  /\ last.key = <<1>>
  /\ {Elements(k) : k \in StoredKeys(Snapshot)} = {{1, 2}, {1, 3}}


(* C11: after clear() or [Symbol.dispose]() size is 0, valueMap and         *)
(* subkeyToKeys have no entries, has(K) is false for every K, and a set(K,  *)
(* v) made next creates one fresh entry that every key equivalent to K      *)
(* resolves to.                                                             *)
C11_ClearThenSet ==
  last.op \in {"clear", "dispose"} =>
    /\ size = 0
    /\ valueMap = <<>>
    /\ subkeyToKeys = <<>>
    /\ \A K \in KeySeqs : ~hasNow(K)
    /\ \A K \in KeySeqs, v \in Vals :
         LET after == set(valueMap, subkeyToKeys, heap, CallerSet, K, v)
         IN /\ Len(after.valueMap) = 1
            /\ \A K2 \in KeySeqs :
                 Equivalent(K, K2) =>
                   get(after.valueMap, after.subkeyToKeys, after.heap, CallerSet, K2) = v

(* C11 with the later set restricted to keys with at least one element. *)
C11_NonEmptyKeys ==
  last.op \in {"clear", "dispose"} =>
    /\ size = 0
    /\ valueMap = <<>>
    /\ subkeyToKeys = <<>>
    /\ \A K \in KeySeqs : ~hasNow(K)
    /\ \A K \in KeySeqs, v \in Vals :
         Len(K) > 0 =>
           LET after == set(valueMap, subkeyToKeys, heap, CallerSet, K, v)
           IN /\ Len(after.valueMap) = 1
              /\ \A K2 \in KeySeqs :
                   Equivalent(K, K2) =>
                     get(after.valueMap, after.subkeyToKeys, after.heap, CallerSet, K2) = v


(* ------------------- several objects sharing one heap ------------------ *)
(* The source container, the Set objects the caller holds and the second   *)
(* container, as one record.                                               *)
World(vm, idx, hp, hd, dv) ==
  [valueMap |-> vm, subkeyToKeys |-> idx, heap |-> hp, held |-> hd, derived |-> dv]

(* The ids a container or the caller refers to, in a fixed order: keys of  *)
(* the source, keys of the second container, the caller's objects.         *)
Roots(w) ==
  [i \in DOMAIN w.valueMap |-> w.valueMap[i].key]
    \o [i \in DOMAIN w.derived.valueMap |-> w.derived.valueMap[i].key]
    \o [i \in DOMAIN w.held |-> w.held[i].ref]

(* Ids referenced from index rows only. *)
RowOnly(w) ==
  (Referenced(w.valueMap, w.subkeyToKeys)
     \cup Referenced(w.derived.valueMap, w.derived.subkeyToKeys))
    \ {Roots(w)[i] : i \in DOMAIN Roots(w)}

(* Object identities are only ever compared with ===, so they are kept up  *)
(* to renaming: an object is renamed by its first place in Roots, one that *)
(* only a row refers to follows in the order of its old id.  Injective.    *)
WorldNames(w) ==
  LET roots == Roots(w)
      rows  == RowOnly(w)
  IN [k \in {roots[i] : i \in DOMAIN roots} \cup rows |->
        IF k \in rows
        THEN Len(roots) + Cardinality({j \in rows : j <= k})
        ELSE CHOOSE i \in DOMAIN roots :
               roots[i] = k /\ \A j \in 1..(i - 1) : roots[j] # k]

RenamedContainer(name, vm, idx) ==
  [valueMap |-> [i \in DOMAIN vm |-> [key |-> name[vm[i].key], val |-> vm[i].val]],
   subkeyToKeys |-> [e \in DOMAIN idx |-> [i \in DOMAIN idx[e] |-> name[idx[e][i]]]]]

(* The world after unreferenced objects were reclaimed and the others      *)
(* renamed.                                                                *)
Reclaimed(w) ==
  LET name   == WorldNames(w)
      live   == DOMAIN name \cap DOMAIN w.heap
      source == RenamedContainer(name, w.valueMap, w.subkeyToKeys)
  IN [valueMap |-> source.valueMap,
      subkeyToKeys |-> source.subkeyToKeys,
      heap |-> [n \in {name[k] : k \in live} |-> w.heap[CHOOSE k \in live : name[k] = n]],
      held |-> [i \in DOMAIN w.held |-> [w.held[i] EXCEPT !.ref = name[@]]],
      derived |-> RenamedContainer(name, w.derived.valueMap, w.derived.subkeyToKeys)]

(* The next state is the world w. *)
Becomes(w) ==
  \E v \in {w} :
    \E r \in {Reclaimed(v)} :
      /\ valueMap' = r.valueMap
      /\ subkeyToKeys' = r.subkeyToKeys
      /\ heap' = r.heap
      /\ held' = r.held
      /\ derived' = r.derived
      /\ UNCHANGED <<iters, pending, loop>>

(* ------------------------------ iteration ------------------------------ *)
(* Mutant: createUserFacingKey that hands out the canonical key itself. *)
exposeCanonicalKey(hp, from) == from

(* createUserFacingKey(from): new Set(Array.from(from)), a new object with *)
(* the elements of `from` in their insertion order.                        *)
createUserFacingKey(hp, from) == NewId(hp)

(* entries(): one [key, value] pair per entry of valueMap, in its order,   *)
(* each key a createUserFacingKey copy; the pairs and the heap afterwards. *)
RECURSIVE entries(_, _, _, _)
entries(vm, hp, i, out) ==
  IF i > Len(vm)
  THEN [heap |-> hp, out |-> out]
  ELSE LET copy == createUserFacingKey(hp, vm[i].key)
       IN entries(vm,
                  [k \in DOMAIN hp \cup {copy} |-> IF k = copy THEN hp[vm[i].key] ELSE hp[k]],
                  i + 1,
                  Append(out, [key |-> copy, val |-> vm[i].val]))

(* keys(): a createUserFacingKey copy of every key of valueMap, in its     *)
(* order: the keys of the pairs entries() builds.                          *)
keys(vm, hp) ==
  LET e == entries(vm, hp, 1, <<>>)
  IN [heap |-> e.heap, out |-> [i \in DOMAIN e.out |-> e.out[i].key]]

(* values(): the values of valueMap in its order. *)
values(vm) == [i \in DOMAIN vm |-> vm[i].val]


(* ------------- a caller that keeps a reference to a Set object ---------- *)
NumHeldElems == 2

(* The Sets the caller constructs in this specification. *)
CallerKeys == {k \in KeySeqs : Elements(k) \subseteq 1..NumHeldElems}

(* The operations that hand a key to the caller: the generators, the       *)
(* callbacks, and the pair find returns.                                   *)
HandingOps ==
  {"keys", "entries", "iterator", "forEach", "every", "some", "filter", "find",
   "map", "flatMap", "mapOver", "reduce", "reduceRight", "findResult"}

(* k = new Set(key) *)
NewSet(key) ==
  LET k == NewId(heap)
  IN /\ Becomes(World(valueMap, subkeyToKeys,
                      [n \in DOMAIN heap \cup {k} |-> IF n = k THEN key ELSE heap[n]],
                      <<[ref |-> k, from |-> "caller", inserted |-> <<>>]>>,
                      derived))
     /\ last' = [op |-> "newSet", key |-> key, val |-> Undefined, ret |-> Undefined]
     /\ before' = Snapshot

(* set(k, value) with the Set object the caller holds; `inserted` records  *)
(* the elements and the value when the call created an entry.              *)
SetHeld(value) ==
  /\ held # <<>>
  /\ LET k == held[1].ref
         after == set(valueMap, subkeyToKeys, heap, k, heap[k], value)
         created == Len(after.valueMap) > Len(valueMap)
     IN /\ Len(after.valueMap) <= MaxKeys
        /\ Becomes(World(after.valueMap, after.subkeyToKeys, after.heap,
                         <<[held[1] EXCEPT !.inserted =
                              IF created THEN <<[key |-> heap[k], val |-> value]>> ELSE <<>>]>>,
                         derived))
        /\ last' = [op |-> "set", key |-> heap[k], val |-> value, ret |-> created]
        /\ before' = Snapshot

(* delete(k) with the Set object the caller holds. *)
DeleteHeld ==
  /\ held # <<>>
  /\ LET k == held[1].ref
         after == delete(valueMap, subkeyToKeys, heap, k, heap[k])
     IN /\ Becomes(World(after.valueMap, after.subkeyToKeys, heap,
                         <<[held[1] EXCEPT !.inserted = <<>>]>>, derived))
        /\ last' = [op |-> "delete", key |-> heap[k], val |-> Undefined, ret |-> after.ret]
        /\ before' = Snapshot

(* get(k) with the Set object the caller holds. *)
GetHeld ==
  /\ held # <<>>
  /\ LET k == held[1].ref
     IN last' = [op |-> "get", key |-> heap[k], val |-> Undefined,
                 ret |-> get(valueMap, subkeyToKeys, heap, k, heap[k])]
  /\ before' = Snapshot
  /\ subkeyToKeys' = rowsRead(subkeyToKeys, heap[held[1].ref])
  /\ UNCHANGED <<valueMap, heap, held, derived, iters, pending, loop>>

(* The caller keeps the i-th key that `op` hands out: keys() yields copies *)
(* of the keys, every other operation passes on the keys of entries().     *)
TakeKey(op, i) ==
  /\ i \in DOMAIN valueMap
  /\ LET yielded == IF op = "keys" THEN keys(valueMap, heap)
                    ELSE LET e == entries(valueMap, heap, 1, <<>>)
                         IN [heap |-> e.heap, out |-> [j \in DOMAIN e.out |-> e.out[j].key]]
         handed == yielded.out[i]
     IN /\ Becomes(World(valueMap, subkeyToKeys, yielded.heap,
                         <<[ref |-> handed, from |-> "container", inserted |-> <<>>]>>,
                         derived))
        /\ last' = [op |-> op, key |-> yielded.heap[handed], val |-> i, ret |-> Undefined]
        /\ before' = Snapshot

(* k.add(e) on the Set object the caller holds. *)
AddElement(e) ==
  /\ held # <<>>
  /\ e \notin Elements(heap[held[1].ref])
  /\ heap' = [heap EXCEPT ![held[1].ref] = Append(@, e)]
  /\ last' = [op |-> "add", key |-> heap[held[1].ref], val |-> e, ret |-> Undefined]
  /\ before' = Snapshot
  /\ UNCHANGED <<valueMap, subkeyToKeys, held, derived, iters, pending, loop>>

(* k.delete(e) on the Set object the caller holds. *)
RemoveElement(e) ==
  /\ held # <<>>
  /\ e \in Elements(heap[held[1].ref])
  /\ heap' = [heap EXCEPT ![held[1].ref] = SelectSeq(@, LAMBDA x : x # e)]
  /\ last' = [op |-> "remove", key |-> heap[held[1].ref], val |-> e, ret |-> Undefined]
  /\ before' = Snapshot
  /\ UNCHANGED <<valueMap, subkeyToKeys, held, derived, iters, pending, loop>>

NextKeys ==
  \/ \E key \in CallerKeys : NewSet(key)
  \/ \E value \in Vals : SetHeld(value)
  \/ DeleteHeld
  \/ GetHeld
  \/ \E op \in HandingOps, i \in 1..MaxKeys : TakeKey(op, i)
  \/ \E e \in 1..NumHeldElems : AddElement(e)
  \/ \E e \in 1..NumHeldElems : RemoveElement(e)

SpecKeys == Init /\ [][NextKeys]_vars

(* The entries of a container state by contents: element sequence, value. *)
Entries(c) ==
  [i \in DOMAIN c.valueMap |->
     [key |-> c.heap[c.valueMap[i].key], val |-> c.valueMap[i].val]]

(* The rows of the index of a container state by contents. *)
Rows(c) ==
  [e \in DOMAIN c.subkeyToKeys |->
     [i \in DOMAIN c.subkeyToKeys[e] |-> c.heap[c.subkeyToKeys[e][i]]]]

(* The call left valueMap and subkeyToKeys as they were, the same objects  *)
(* with the same elements.                                                 *)
ContainerUnchanged ==
  /\ valueMap = before.valueMap
  /\ subkeyToKeys = before.subkeyToKeys
  /\ Entries(Snapshot) = Entries(before)
  /\ Rows(Snapshot) = Rows(before)

(* C12: a key the container handed to the caller (by keys(), entries(),    *)
(* the iterator, a callback of forEach, every, some, filter, find, map,    *)
(* flatMap, mapOver, reduce, reduceRight, or the pair find returns) is an  *)
(* object that is no key of valueMap and in no row of subkeyToKeys, and    *)
(* adding an element to it or removing one changes neither the entries nor *)
(* the index.                                                              *)
C12_CanonicalKeysNotExposed ==
  (held # <<>> /\ held[1].from = "container") =>
    /\ ~MapHas(valueMap, held[1].ref)
    /\ held[1].ref \notin Referenced(valueMap, subkeyToKeys)
    /\ last.op \in HandingOps =>
         /\ heap[held[1].ref] = before.heap[before.valueMap[last.val].key]
         /\ ContainerUnchanged
    /\ last.op \in {"add", "remove"} => ContainerUnchanged

(* C12 witness: with two entries stored, the caller has just added an      *)
(* element to a key the container handed out; the key had the elements of  *)
(* a stored key and now has those of none.                                 *)
C12_Witness ==
  /\ held # <<>>
  /\ held[1].from = "container"
  /\ last.op = "add"
  /\ size = 2
  /\ Stored(Snapshot, last.key)
  /\ ~Stored(Snapshot, heap[held[1].ref])

(* C13: after set(k, v) created an entry, adding elements to the caller's  *)
(* k or removing them changes neither valueMap nor subkeyToKeys, get with  *)
(* the elements k had at the call returns v, and get with the elements k   *)
(* has now returns v only if a key with those elements is stored.          *)
C13_CopyOnInsert ==
  (held # <<>> /\ held[1].inserted # <<>> /\ last.op \in {"add", "remove"}) =>
    LET original == held[1].inserted[1].key
        v        == held[1].inserted[1].val
        now      == heap[held[1].ref]
    IN /\ ContainerUnchanged
       /\ getNow(original) = v
       /\ (~Equivalent(now, original) /\ getNow(now) = v) => Stored(Snapshot, now)

(* C13 for a key k that had at least one element when it was stored. *)
C13_NonEmptyKeys ==
  (held # <<>> /\ held[1].inserted # <<>> /\ last.op \in {"add", "remove"}
     /\ Len(held[1].inserted[1].key) > 0) =>
    LET original == held[1].inserted[1].key
        v        == held[1].inserted[1].val
        now      == heap[held[1].ref]
    IN /\ ContainerUnchanged
       /\ getNow(original) = v
       /\ get(valueMap, subkeyToKeys, heap, held[1].ref, now) = getNow(now)
       /\ (~Equivalent(now, original) /\ getNow(now) = v) => Stored(Snapshot, now)


(* ------------------------- derived containers -------------------------- *)
(* Mutant: a filter that puts the keys it is given into the result's       *)
(* valueMap and registers nothing.                                         *)
RECURSIVE filterUnregistered(_, _, _, _, _)
filterUnregistered(pairs, hp, p, i, result) ==
  IF i > Len(pairs)
  THEN [valueMap |-> result.valueMap, subkeyToKeys |-> result.subkeyToKeys, heap |-> hp]
  ELSE filterUnregistered(pairs, hp, p, i + 1,
         IF p[i]
         THEN [result EXCEPT !.valueMap = MapSet(@, pairs[i].key, pairs[i].val)]
         ELSE result)

(* Mutant: a filter that keeps the entries the callback rejected. *)
RECURSIVE filterRejected(_, _, _, _, _)
filterRejected(pairs, hp, p, i, result) ==
  IF i > Len(pairs)
  THEN [valueMap |-> result.valueMap, subkeyToKeys |-> result.subkeyToKeys, heap |-> hp]
  ELSE IF ~p[i]
       THEN LET after == set(result.valueMap, result.subkeyToKeys, hp,
                             pairs[i].key, hp[pairs[i].key], pairs[i].val)
            IN filterRejected(pairs, after.heap, p, i + 1,
                 [valueMap |-> after.valueMap, subkeyToKeys |-> after.subkeyToKeys])
       ELSE filterRejected(pairs, hp, p, i + 1, result)

(* filter(callbackfn): result.set(key, value) for every pair of entries()  *)
(* the callback accepts, from the i-th pair on; `pairs` are the pairs of   *)
(* entries() and p[i] is what the callback returned for the i-th of them.  *)
(* The result and the heap afterwards.                                     *)
RECURSIVE filter(_, _, _, _, _)
filter(pairs, hp, p, i, result) ==
  IF i > Len(pairs)
  THEN [valueMap |-> result.valueMap, subkeyToKeys |-> result.subkeyToKeys, heap |-> hp]
  ELSE IF p[i]
       THEN LET after == set(result.valueMap, result.subkeyToKeys, hp,
                             pairs[i].key, hp[pairs[i].key], pairs[i].val)
            IN filter(pairs, after.heap, p, i + 1,
                 [valueMap |-> after.valueMap, subkeyToKeys |-> after.subkeyToKeys])
       ELSE filter(pairs, hp, p, i + 1, result)

(* Mutant: a mapOver that stores every result under the key of the first   *)
(* pair.                                                                   *)
RECURSIVE mapOverFirstKey(_, _, _, _, _)
mapOverFirstKey(pairs, hp, f, i, result) ==
  IF i > Len(pairs)
  THEN [valueMap |-> result.valueMap, subkeyToKeys |-> result.subkeyToKeys, heap |-> hp]
  ELSE LET after == set(result.valueMap, result.subkeyToKeys, hp,
                        pairs[1].key, hp[pairs[1].key], f[i])
       IN mapOverFirstKey(pairs, after.heap, f, i + 1,
            [valueMap |-> after.valueMap, subkeyToKeys |-> after.subkeyToKeys])

(* mapOver(callbackfn): result.set(key, callbackfn(value, key)) for every  *)
(* pair of entries(), from the i-th pair on; f[i] is what the callback     *)
(* returned for the i-th pair.                                             *)
RECURSIVE mapOver(_, _, _, _, _)
mapOver(pairs, hp, f, i, result) ==
  IF i > Len(pairs)
  THEN [valueMap |-> result.valueMap, subkeyToKeys |-> result.subkeyToKeys, heap |-> hp]
  ELSE LET after == set(result.valueMap, result.subkeyToKeys, hp,
                        pairs[i].key, hp[pairs[i].key], f[i])
       IN mapOver(pairs, after.heap, f, i + 1,
            [valueMap |-> after.valueMap, subkeyToKeys |-> after.subkeyToKeys])

(* The two instances of this specification. *)
Instances == {"source", "derived"}

Instance(c) ==
  IF c = "source" THEN [valueMap |-> valueMap, subkeyToKeys |-> subkeyToKeys] ELSE derived

(* The keys the caller uses in this specification: {}, {1}, {1,2} in both  *)
(* insertion orders.                                                       *)
NestedKeys == {k \in CallerKeys : Elements(k) = 1..Len(k)}

(* What a callback returns for the entries it is called with, one result   *)
(* per entry.                                                              *)
Verdicts == UNION {[1..n -> BOOLEAN] : n \in 0..MaxKeys}
Images == UNION {[1..n -> Vals] : n \in 0..MaxKeys}

(* Mutant: valueMap and subkeyToKeys shared by all instances. *)
sharedFields(c, target, old, new) == new

(* valueMap and subkeyToKeys are fields of the instance: the fields of     *)
(* instance c after a call on instance `target` replaced fields `old` by   *)
(* `new`.                                                                  *)
ownFields(c, target, old, new) == IF c = target THEN new ELSE old

(* The world after a call on instance `target` left it as `new` in the     *)
(* heap hp.                                                                *)
Written(target, new, hp) ==
  LET s == ownFields("source", target, Instance("source"), new)
      d == ownFields("derived", target, Instance("derived"), new)
  IN World(s.valueMap, s.subkeyToKeys, hp, <<>>, d)

(* c.set(key, value) *)
SetOn(c, key, value) ==
  LET after == set(Instance(c).valueMap, Instance(c).subkeyToKeys, heap, CallerSet, key, value)
  IN /\ Len(after.valueMap) <= MaxKeys
     /\ Becomes(Written(c, [valueMap |-> after.valueMap, subkeyToKeys |-> after.subkeyToKeys],
                        after.heap))
     /\ last' = [op |-> "set", on |-> c, key |-> key, val |-> value, ret |-> Undefined,
                 accepted |-> <<>>, mapped |-> <<>>]
     /\ UNCHANGED before

(* c.delete(key) *)
DeleteOn(c, key) ==
  LET after == delete(Instance(c).valueMap, Instance(c).subkeyToKeys, heap, CallerSet, key)
  IN /\ Becomes(Written(c, [valueMap |-> after.valueMap, subkeyToKeys |-> after.subkeyToKeys],
                        heap))
     /\ last' = [op |-> "delete", on |-> c, key |-> key, val |-> Undefined, ret |-> after.ret,
                 accepted |-> <<>>, mapped |-> <<>>]
     /\ UNCHANGED before

(* c.clear() *)
ClearOn(c) ==
  /\ Becomes(Written(c, EmptyContainer, heap))
  /\ last' = [op |-> "clear", on |-> c, key |-> <<>>, val |-> Undefined, ret |-> Undefined,
              accepted |-> <<>>, mapped |-> <<>>]
  /\ UNCHANGED before

(* derived = c.filter(callbackfn), the callback returning p[i] for the     *)
(* i-th entry.                                                             *)
Filter(c, p) ==
  /\ DOMAIN p = DOMAIN Instance(c).valueMap
  /\ LET e == entries(Instance(c).valueMap, heap, 1, <<>>)
         result == filter(e.out, e.heap, p, 1, EmptyContainer)
     IN Becomes(World(valueMap, subkeyToKeys, result.heap, <<>>,
                      [valueMap |-> result.valueMap, subkeyToKeys |-> result.subkeyToKeys]))
  /\ last' = [op |-> "filter", on |-> c, key |-> <<>>, val |-> Undefined, ret |-> Undefined,
              accepted |-> p, mapped |-> <<>>]
  /\ UNCHANGED before

(* derived = c.mapOver(callbackfn), the callback returning f[i] for the    *)
(* i-th entry.                                                             *)
MapOver(c, f) ==
  /\ DOMAIN f = DOMAIN Instance(c).valueMap
  /\ LET e == entries(Instance(c).valueMap, heap, 1, <<>>)
         result == mapOver(e.out, e.heap, f, 1, EmptyContainer)
     IN Becomes(World(valueMap, subkeyToKeys, result.heap, <<>>,
                      [valueMap |-> result.valueMap, subkeyToKeys |-> result.subkeyToKeys]))
  /\ last' = [op |-> "mapOver", on |-> c, key |-> <<>>, val |-> Undefined, ret |-> Undefined,
              accepted |-> <<>>, mapped |-> f]
  /\ UNCHANGED before

NextDerived ==
  \/ \E c \in Instances, key \in NestedKeys, value \in Vals : SetOn(c, key, value)
  \/ \E c \in Instances, key \in NestedKeys : DeleteOn(c, key)
  \/ \E c \in Instances : ClearOn(c)
  \/ \E c \in Instances, p \in Verdicts : Filter(c, p)
  \/ \E c \in Instances, f \in Images : MapOver(c, f)

SpecDerived == Init /\ [][NextDerived]_vars


(* An instance with the heap its keys live in, as a container state. *)
InstanceState(c) ==
  [valueMap |-> Instance(c).valueMap, subkeyToKeys |-> Instance(c).subkeyToKeys, heap |-> heap]

(* The same after the step. *)
InstanceAfter(c) ==
  IF c = "source"
  THEN [valueMap |-> valueMap', subkeyToKeys |-> subkeyToKeys', heap |-> heap']
  ELSE [valueMap |-> derived'.valueMap, subkeyToKeys |-> derived'.subkeyToKeys, heap |-> heap']

Other(c) == IF c = "source" THEN "derived" ELSE "source"

(* A container built from nothing by one set per entry, in order. *)
RECURSIVE Built(_, _, _)
Built(es, i, acc) ==
  IF i > Len(es)
  THEN acc
  ELSE Built(es, i + 1,
             set(acc.valueMap, acc.subkeyToKeys, acc.heap, CallerSet, es[i].key, es[i].val))

(* The container state after delete(key). *)
AfterDelete(c, key) ==
  LET after == delete(c.valueMap, c.subkeyToKeys, c.heap, CallerSet, key)
  IN [valueMap |-> after.valueMap, subkeyToKeys |-> after.subkeyToKeys, heap |-> c.heap]

(* C14: the container filter or mapOver returned (from the source or from  *)
(* an earlier result) has an index bidirectionally consistent with its     *)
(* valueMap, shares no key object with the source, and get, has and delete *)
(* on it give for every key what they give on a container built by set     *)
(* from the same entries.                                                  *)
C14_DerivedWellFormed ==
  LET d == InstanceState("derived")
      b == Built(Entries(d), 1, [valueMap |-> <<>>, subkeyToKeys |-> <<>>, heap |-> <<>>])
  IN /\ \A i \in DOMAIN d.valueMap :
          \A e \in Elements(heap[d.valueMap[i].key]) :
            e \in DOMAIN d.subkeyToKeys /\ Includes(d.subkeyToKeys[e], d.valueMap[i].key)
     /\ \A e \in DOMAIN d.subkeyToKeys :
          \A j \in DOMAIN d.subkeyToKeys[e] :
            /\ MapHas(d.valueMap, d.subkeyToKeys[e][j])
            /\ e \in Elements(heap[d.subkeyToKeys[e][j]])
     /\ Referenced(d.valueMap, d.subkeyToKeys) \cap Referenced(valueMap, subkeyToKeys) = {}
     /\ \A K \in CallerKeys :
          /\ get(d.valueMap, d.subkeyToKeys, d.heap, CallerSet, K)
               = get(b.valueMap, b.subkeyToKeys, b.heap, CallerSet, K)
          /\ has(d.valueMap, d.subkeyToKeys, d.heap, CallerSet, K)
               = has(b.valueMap, b.subkeyToKeys, b.heap, CallerSet, K)
          /\ delete(d.valueMap, d.subkeyToKeys, d.heap, CallerSet, K).ret
               = delete(b.valueMap, b.subkeyToKeys, b.heap, CallerSet, K).ret
          /\ Entries(AfterDelete(d, K)) = Entries(AfterDelete(b, K))
          /\ Rows(AfterDelete(d, K)) = Rows(AfterDelete(b, K))

(* C14 witness: mapOver on an earlier result returned a container with the *)
(* keys {1} and {1,2}, which share the row of 1.                           *)
C14_Witness ==
  /\ last.op = "mapOver"
  /\ last.on = "derived"
  /\ Len(derived.valueMap) = 2
  /\ 1 \in DOMAIN derived.subkeyToKeys
  /\ Len(derived.subkeyToKeys[1]) = 2

(* C15: set, delete or clear on one instance, the derived container or the *)
(* source it was derived from, leaves the size, the entries and the index  *)
(* of the other instance as they were.                                     *)
C15_DerivativeIsolation ==
  [][ last'.op \in {"set", "delete", "clear"} =>
        /\ Len(InstanceAfter(Other(last'.on)).valueMap)
             = Len(InstanceState(Other(last'.on)).valueMap)
        /\ Entries(InstanceAfter(Other(last'.on))) = Entries(InstanceState(Other(last'.on)))
        /\ Rows(InstanceAfter(Other(last'.on))) = Rows(InstanceState(Other(last'.on)))
    ]_vars

(* C15 witness: delete removed an entry of the derived container while the *)
(* source holds two entries, one of them with the deleted key's elements.  *)
C15_Witness ==
  /\ last.op = "delete"
  /\ last.on = "derived"
  /\ last.ret = TRUE
  /\ size = 2
  /\ Stored(Snapshot, last.key)

(* The entries the callback accepted, in order. *)
RECURSIVE Accepted(_, _, _)
Accepted(es, p, i) ==
  IF i > Len(es) THEN <<>>
  ELSE (IF p[i] THEN <<es[i]>> ELSE <<>>) \o Accepted(es, p, i + 1)

(* C16: the entries of filter(p), element sequence and value, are the      *)
(* entries of the filtered container for which p returned true, in their   *)
(* order and with their values, and its size is their number.              *)
C16_FilterResult ==
  [][ last'.op = "filter" =>
        /\ Entries(InstanceAfter("derived"))
             = Accepted(Entries(InstanceState(last'.on)), last'.accepted, 1)
        /\ Len(derived.valueMap)'
             = Cardinality({i \in DOMAIN last'.accepted : last'.accepted[i]})
    ]_vars

(* C16 witness: filter rejected the first of two entries and accepted the  *)
(* second.                                                                 *)
C16_Witness ==
  /\ last.op = "filter"
  /\ last.accepted = <<FALSE, TRUE>>
  /\ Len(derived.valueMap) = 1

(* C17: mapOver(f) has as many entries as the container it was called on,  *)
(* with the same key elements in the same order and the value f returned   *)
(* for each; keys with different elements stay different entries whatever  *)
(* f returns.                                                              *)
C17_MapOverResult ==
  [][ last'.op = "mapOver" =>
        LET from == Entries(InstanceState(last'.on))
            to   == Entries(InstanceAfter("derived"))
        IN /\ Len(to) = Len(from)
           /\ \A i \in DOMAIN from :
                to[i].key = from[i].key /\ to[i].val = last'.mapped[i]
    ]_vars

(* C17 witness: mapOver with a callback returning 1 for both entries of a  *)
(* container whose two keys have different elements and whose second       *)
(* value was 2.                                                            *)
C17_Witness ==
  /\ last.op = "mapOver"
  /\ last.on = "source"
  /\ last.mapped = <<1, 1>>
  /\ Len(derived.valueMap) = 2
  /\ size = 2
  /\ valueMap[2].val = 2
  /\ ~Equivalent(heap[valueMap[1].key], heap[valueMap[2].key])


(* ------------------------ read-only operations ------------------------- *)
(* The pairs entries() yields as a callback sees them: the elements of the *)
(* key copy in insertion order, and the value.                             *)
Pairs(vm, hp) ==
  LET e == entries(vm, hp, 1, <<>>)
  IN [i \in DOMAIN e.out |-> [key |-> e.heap[e.out[i].key], val |-> e.out[i].val]]

(* What a flatMap callback returns: an array. *)
Arrays == {<<>>, <<1>>, <<NumVals, 1>>}
ArrayImages == UNION {[1..n -> Arrays] : n \in 0..MaxKeys}

(* forEach(callbackfn): the calls made, in order, from the i-th pair on. *)
RECURSIVE forEach(_, _, _)
forEach(pairs, i, calls) ==
  IF i > Len(pairs) THEN calls ELSE forEach(pairs, i + 1, Append(calls, pairs[i]))

(* Mutant: every that calls the callback for all pairs before answering. *)
everyExhaustive(pairs, p, i) ==
  [ret |-> \A j \in i..Len(pairs) : p[j], calls |-> Len(pairs)]

(* every(callbackfn): false at the first pair the callback rejects; calls  *)
(* is the number of calls of the callback made by then.                    *)
RECURSIVE every(_, _, _)
every(pairs, p, i) ==
  IF i > Len(pairs) THEN [ret |-> TRUE, calls |-> Len(pairs)]
  ELSE IF ~p[i] THEN [ret |-> FALSE, calls |-> i] ELSE every(pairs, p, i + 1)

(* some(callbackfn): true at the first pair the callback accepts. *)
RECURSIVE some(_, _, _)
some(pairs, p, i) ==
  IF i > Len(pairs) THEN [ret |-> FALSE, calls |-> Len(pairs)]
  ELSE IF p[i] THEN [ret |-> TRUE, calls |-> i] ELSE some(pairs, p, i + 1)

(* Mutant: find that returns the last pair the callback accepts. *)
findLast(pairs, p, i) ==
  IF \E j \in i..Len(pairs) : p[j]
  THEN pairs[CHOOSE j \in i..Len(pairs) : p[j] /\ \A k \in (j + 1)..Len(pairs) : ~p[k]]
  ELSE Undefined

(* find(callbackfn): the first pair the callback accepts, or undefined. *)
RECURSIVE find(_, _, _)
find(pairs, p, i) ==
  IF i > Len(pairs) THEN Undefined
  ELSE IF p[i] THEN pairs[i] ELSE find(pairs, p, i + 1)

(* includes(value): true at the first of values() that is === value. *)
RECURSIVE includes(_, _, _)
includes(vals, value, i) ==
  IF i > Len(vals) THEN FALSE
  ELSE IF vals[i] = value THEN TRUE ELSE includes(vals, value, i + 1)

(* map(callbackfn): the callback's results, pushed in order. *)
RECURSIVE map(_, _, _, _)
map(pairs, f, i, result) ==
  IF i > Len(pairs) THEN result ELSE map(pairs, f, i + 1, Append(result, f[i]))

(* flatMap(callbackfn): the elements of the callback's results, pushed in  *)
(* order.                                                                  *)
RECURSIVE flatMap(_, _, _, _)
flatMap(pairs, f, i, result) ==
  IF i > Len(pairs) THEN result ELSE flatMap(pairs, f, i + 1, result \o f[i])

(* The callback given to reduce and reduceRight: it appends what it is     *)
(* called with to the accumulator, so the result is the sequence of calls. *)
callbackfn(accumulator, value, key) == Append(accumulator, [key |-> key, val |-> value])

(* Mutant: reduce that passes the pairs to the callback last pair first. *)
reduceBackwards(pairs, i, accumulator) ==
  accumulator \o [j \in 1..(Len(pairs) + 1 - i) |->
                   [key |-> pairs[Len(pairs) + 1 - j].key, val |-> pairs[Len(pairs) + 1 - j].val]]

(* reduce(callbackfn, initialValue): the accumulator after the pairs of    *)
(* entries() from the i-th on, passed to the callback in that order.       *)
RECURSIVE reduce(_, _, _)
reduce(pairs, i, accumulator) ==
  IF i > Len(pairs) THEN accumulator
  ELSE reduce(pairs, i + 1, callbackfn(accumulator, pairs[i].val, pairs[i].key))

(* reduceRight(callbackfn, initialValue): the accumulator after the pairs  *)
(* of entries() from the i-th on, passed to the callback in that order.    *)
RECURSIVE reduceRight(_, _, _)
reduceRight(pairs, i, accumulator) ==
  IF i > Len(pairs) THEN accumulator
  ELSE reduceRight(pairs, i + 1, callbackfn(accumulator, pairs[i].val, pairs[i].key))

(* size *)
Size ==
  /\ last' = [op |-> "size", key |-> <<>>, val |-> Undefined, ret |-> Len(valueMap)]
  /\ before' = Snapshot
  /\ UNCHANGED <<valueMap, subkeyToKeys, heap, held, derived, iters, pending, loop>>

(* keys(): the elements of the keys it yields. *)
Keys ==
  /\ last' = [op |-> "keys", key |-> <<>>, val |-> Undefined,
              ret |-> LET k == keys(valueMap, heap)
                      IN [i \in DOMAIN k.out |-> k.heap[k.out[i]]]]
  /\ before' = Snapshot
  /\ UNCHANGED <<valueMap, subkeyToKeys, heap, held, derived, iters, pending, loop>>

(* values() *)
Values ==
  /\ last' = [op |-> "values", key |-> <<>>, val |-> Undefined, ret |-> values(valueMap)]
  /\ before' = Snapshot
  /\ UNCHANGED <<valueMap, subkeyToKeys, heap, held, derived, iters, pending, loop>>

(* entries() *)
EntriesCall ==
  /\ last' = [op |-> "entries", key |-> <<>>, val |-> Undefined, ret |-> Pairs(valueMap, heap)]
  /\ before' = Snapshot
  /\ UNCHANGED <<valueMap, subkeyToKeys, heap, held, derived, iters, pending, loop>>

(* [Symbol.iterator](): this.entries() *)
Iterator ==
  /\ last' = [op |-> "iterator", key |-> <<>>, val |-> Undefined, ret |-> Pairs(valueMap, heap)]
  /\ before' = Snapshot
  /\ UNCHANGED <<valueMap, subkeyToKeys, heap, held, derived, iters, pending, loop>>

(* forEach(callbackfn); ret holds the calls made, forEach returns nothing. *)
ForEach ==
  /\ last' = [op |-> "forEach", key |-> <<>>, val |-> Undefined,
              ret |-> forEach(Pairs(valueMap, heap), 1, <<>>)]
  /\ before' = Snapshot
  /\ UNCHANGED <<valueMap, subkeyToKeys, heap, held, derived, iters, pending, loop>>

(* every(callbackfn), the callback returning p[i] for the i-th entry. *)
Every(p) ==
  /\ DOMAIN p = DOMAIN valueMap
  /\ last' = [op |-> "every", key |-> <<>>, val |-> p,
              ret |-> every(Pairs(valueMap, heap), p, 1).ret,
              calls |-> every(Pairs(valueMap, heap), p, 1).calls]
  /\ before' = Snapshot
  /\ UNCHANGED <<valueMap, subkeyToKeys, heap, held, derived, iters, pending, loop>>

(* some(callbackfn) *)
Some(p) ==
  /\ DOMAIN p = DOMAIN valueMap
  /\ last' = [op |-> "some", key |-> <<>>, val |-> p,
              ret |-> some(Pairs(valueMap, heap), p, 1).ret,
              calls |-> some(Pairs(valueMap, heap), p, 1).calls]
  /\ before' = Snapshot
  /\ UNCHANGED <<valueMap, subkeyToKeys, heap, held, derived, iters, pending, loop>>

(* find(callbackfn) *)
Find(p) ==
  /\ DOMAIN p = DOMAIN valueMap
  /\ last' = [op |-> "find", key |-> <<>>, val |-> p,
              ret |-> find(Pairs(valueMap, heap), p, 1)]
  /\ before' = Snapshot
  /\ UNCHANGED <<valueMap, subkeyToKeys, heap, held, derived, iters, pending, loop>>

(* includes(value) *)
IncludesValue(value) ==
  /\ last' = [op |-> "includes", key |-> <<>>, val |-> value,
              ret |-> includes(values(valueMap), value, 1)]
  /\ before' = Snapshot
  /\ UNCHANGED <<valueMap, subkeyToKeys, heap, held, derived, iters, pending, loop>>

(* map(callbackfn), the callback returning f[i] for the i-th entry. *)
Map(f) ==
  /\ DOMAIN f = DOMAIN valueMap
  /\ last' = [op |-> "map", key |-> <<>>, val |-> f,
              ret |-> map(Pairs(valueMap, heap), f, 1, <<>>)]
  /\ before' = Snapshot
  /\ UNCHANGED <<valueMap, subkeyToKeys, heap, held, derived, iters, pending, loop>>

(* flatMap(callbackfn), the callback returning the array f[i]. *)
FlatMap(f) ==
  /\ DOMAIN f = DOMAIN valueMap
  /\ last' = [op |-> "flatMap", key |-> <<>>, val |-> f,
              ret |-> flatMap(Pairs(valueMap, heap), f, 1, <<>>)]
  /\ before' = Snapshot
  /\ UNCHANGED <<valueMap, subkeyToKeys, heap, held, derived, iters, pending, loop>>

(* reduce(callbackfn, initialValue) with the accumulator <<initialValue>>. *)
Reduce(initialValue) ==
  /\ last' = [op |-> "reduce", key |-> <<>>, val |-> initialValue,
              ret |-> reduce(Pairs(valueMap, heap), 1, <<initialValue>>)]
  /\ before' = Snapshot
  /\ UNCHANGED <<valueMap, subkeyToKeys, heap, held, derived, iters, pending, loop>>

(* reduceRight(callbackfn, initialValue) *)
ReduceRight(initialValue) ==
  /\ last' = [op |-> "reduceRight", key |-> <<>>, val |-> initialValue,
              ret |-> reduceRight(Pairs(valueMap, heap), 1, <<initialValue>>)]
  /\ before' = Snapshot
  /\ UNCHANGED <<valueMap, subkeyToKeys, heap, held, derived, iters, pending, loop>>

ReadOps ==
  {"get", "has", "size", "keys", "values", "entries", "iterator", "forEach", "every",
   "some", "find", "includes", "map", "flatMap", "reduce", "reduceRight"}

NextRead ==
  \/ Next
  \/ Size
  \/ Keys
  \/ Values
  \/ EntriesCall
  \/ Iterator
  \/ ForEach
  \/ \E p \in Verdicts : Every(p)
  \/ \E p \in Verdicts : Some(p)
  \/ \E p \in Verdicts : Find(p)
  \/ \E value \in Vals : IncludesValue(value)
  \/ \E f \in Images : Map(f)
  \/ \E f \in ArrayImages : FlatMap(f)
  \/ \E initialValue \in Vals : Reduce(initialValue)
  \/ \E initialValue \in Vals : ReduceRight(initialValue)

SpecRead == Init /\ [][NextRead]_vars


(* C18: get, has, size, keys, values, entries, the iterator, forEach,      *)
(* every, some, find, includes, map, flatMap, reduce and reduceRight leave *)
(* valueMap and subkeyToKeys as they were: no canonical key and no index   *)
(* row is created or removed by a lookup, found or not, or by an           *)
(* iteration.                                                              *)
C18_ReadOnlyOperations ==
  last.op \in ReadOps =>
    /\ ContainerUnchanged
    /\ heap = before.heap
    /\ DOMAIN subkeyToKeys = DOMAIN before.subkeyToKeys

(* C18 witness: get did not find a key one of whose elements has no row,   *)
(* in a container of two entries.                                          *)
C18_Witness ==
  /\ last.op = "get"
  /\ last.ret = Undefined
  /\ size = 2
  /\ \E e \in Elements(last.key) : e \notin DOMAIN subkeyToKeys

(* The call was a set whose key resolved to a stored canonical key. *)
SetResolved ==
  /\ last.op = "set"
  /\ getCannonicalKey(before.valueMap, before.subkeyToKeys, before.heap,
                      CallerSet, last.key) # NotFound

(* C19: an entry with the elements of K appears only by a set with a key   *)
(* equivalent to K that did not resolve, and disappears only by a delete   *)
(* with a key equivalent to K or by clear; a set that resolves keeps the   *)
(* entry and replaces its value; the number of entries and the value found *)
(* for K change in no other way.                                           *)
C19_EntryStateMachine ==
  /\ \A K \in KeySeqs :
       /\ (~Stored(before, K) /\ Stored(Snapshot, K)) =>
            last.op = "set" /\ Equivalent(last.key, K) /\ ~SetResolved
       /\ (Stored(before, K) /\ ~Stored(Snapshot, K)) =>
            \/ last.op = "delete" /\ Equivalent(last.key, K)
            \/ last.op \in {"clear", "dispose"}
       /\ (Stored(before, K) /\ Stored(Snapshot, K) /\ getNow(K) # getBefore(K)) =>
            SetResolved /\ Equivalent(last.key, K)
  /\ SetResolved =>
       /\ Stored(before, last.key)
       /\ Stored(Snapshot, last.key)
       /\ getNow(last.key) = last.val
       /\ size = sizeBefore
  /\ size > sizeBefore => last.op = "set" /\ ~SetResolved /\ size = sizeBefore + 1
  /\ size < sizeBefore =>
       \/ last.op = "delete" /\ last.ret = TRUE /\ size = sizeBefore - 1
       \/ last.op \in {"clear", "dispose"}

(* C19 witness: delete removed the entry of its key and left another one   *)
(* present.                                                                *)
C19_Witness ==
  /\ last.op = "delete"
  /\ Stored(before, last.key)
  /\ ~Stored(Snapshot, last.key)
  /\ size = 1

(* A sequence in reverse order. *)
Reverse(seq) == [i \in DOMAIN seq |-> seq[Len(seq) + 1 - i]]

(* C20: reduceRight passes the entries to the callback in the reverse of   *)
(* the order of entries(), last entry first, starting from initialValue.   *)
C20_ReduceRightOrder ==
  last.op = "reduceRight" =>
    last.ret = reduce(Reverse(Pairs(before.valueMap, before.heap)), 1, <<last.val>>)

(* What reduceRight does: it passes the entries in the order of entries(), *)
(* as reduce does.                                                         *)
C20_SameOrderAsReduce ==
  last.op = "reduceRight" =>
    last.ret = reduce(Pairs(before.valueMap, before.heap), 1, <<last.val>>)


(* The first entry for which the callback returned the verdict b, or n + 1 *)
(* when it returned b for none of the n entries.                           *)
FirstWith(p, b, n) ==
  IF \E i \in 1..n : p[i] = b
  THEN CHOOSE i \in 1..n : p[i] = b /\ \A j \in 1..(i - 1) : p[j] # b
  ELSE n + 1

(* C22: every returns true iff the callback is truthy for all stored       *)
(* entries (true on an empty container) and makes no call after the first  *)
(* falsy result; some returns true iff the callback is truthy for at least *)
(* one entry (false on an empty container) and makes no call after the     *)
(* first truthy result.                                                    *)
C22_EverySome ==
  /\ last.op = "every" =>
       /\ DOMAIN last.val = 1..size
       /\ last.ret = (\A i \in 1..size : last.val[i])
       /\ last.calls = IF last.ret THEN size ELSE FirstWith(last.val, FALSE, size)
  /\ last.op = "some" =>
       /\ DOMAIN last.val = 1..size
       /\ last.ret = (\E i \in 1..size : last.val[i])
       /\ last.calls = IF last.ret THEN FirstWith(last.val, TRUE, size) ELSE size

(* C22 witness: every on a container of two entries stopped at the first   *)
(* entry, which the callback rejected; it would have accepted the second.  *)
C22_Witness ==
  /\ last.op = "every"
  /\ size = 2
  /\ last.val = <<FALSE, TRUE>>
  /\ last.ret = FALSE
  /\ last.calls = 1


(* C23: find returns the first entry in entries() order for which the      *)
(* callback is truthy, as a pair of a key with the stored key's elements   *)
(* and the stored value, and undefined when the callback is truthy for no  *)
(* entry.                                                                  *)
C23_Find ==
  last.op = "find" =>
    IF \E i \in 1..size : last.val[i]
    THEN /\ Elements(last.ret.key) = Elements(heap[valueMap[FirstWith(last.val, TRUE, size)].key])
         /\ Len(last.ret.key) = Len(heap[valueMap[FirstWith(last.val, TRUE, size)].key])
         /\ last.ret.val = valueMap[FirstWith(last.val, TRUE, size)].val
    ELSE last.ret = Undefined

(* C23 witness: the callback accepted both entries of a container whose    *)
(* entries differ in key and value, and find returned the first.           *)
C23_Witness ==
  /\ last.op = "find"
  /\ size = 2
  /\ last.val = <<TRUE, TRUE>>
  /\ valueMap[1].val # valueMap[2].val
  /\ ~Equivalent(heap[valueMap[1].key], heap[valueMap[2].key])
  /\ last.ret.val = valueMap[1].val


(* C24: reduce is a left fold over entries() order: the callback is called *)
(* once per stored entry, first to last, each time with the accumulator    *)
(* the call before returned, starting from initialValue; on an empty       *)
(* container the callback is not called and reduce returns initialValue.   *)
(* The accumulator of the model is initialValue followed by the arguments  *)
(* of the calls made, in order.                                            *)
C24_ReduceLeftFold ==
  last.op = "reduce" =>
    /\ Len(last.ret) = size + 1
    /\ last.ret[1] = last.val
    /\ \A i \in 1..size :
         /\ last.ret[i + 1].val = valueMap[i].val
         /\ last.ret[i + 1].key = heap[valueMap[i].key]

(* C24 witness: reduce folded two entries of different keys and values.    *)
C24_Witness ==
  /\ last.op = "reduce"
  /\ size = 2
  /\ Len(last.ret) = 3
  /\ valueMap[1].val # valueMap[2].val
  /\ ~Equivalent(heap[valueMap[1].key], heap[valueMap[2].key])


(* ---------------------- canonicalization, again ----------------------- *)
(* The key getCannonicalKey resolves a Set of the caller's to. *)
Canonical(key) == getCannonicalKey(valueMap, subkeyToKeys, heap, CallerSet, key)

C27_OtherKeysUntouched ==
  last.op \in {"set", "delete"} =>
    \A K2 \in KeySeqs :
      ~Equivalent(K2, last.key) =>
        /\ getNow(K2) = getBefore(K2)
        /\ hasNow(K2) = hasBefore(K2)

(* C27 witness: delete({1,2}) removed its entry from a container that also *)
(* holds {1,2,3}, a superset that is still found with its value.           *)
C27_Witness ==
  /\ last.op = "delete" /\ last.ret = TRUE
  /\ Elements(last.key) = {1, 2}
  /\ sizeBefore = 2
  /\ hasBefore(<<1, 2, 3>>)
  /\ hasNow(<<1, 2, 3>>)
  /\ getNow(<<1, 2, 3>>) = getBefore(<<1, 2, 3>>)
  /\ ~hasNow(<<1, 2>>)


(* The canonical key objects of valueMap, in insertion order. *)
KeyObjects(vm) == [i \in DOMAIN vm |-> vm[i].key]

(* C28: a set that resolves to a stored canonical key leaves subkeyToKeys  *)
(* as it was and creates no Set object: the stored key objects and their   *)
(* contents are those from before the call.  A set that does not resolve   *)
(* creates one Set object, stores it as the last key of valueMap and       *)
(* appends it to the row of each of its elements.                          *)
C28_SetOnExistingKey ==
  /\ SetResolved =>
       /\ subkeyToKeys = before.subkeyToKeys
       /\ KeyObjects(valueMap) = KeyObjects(before.valueMap)
       /\ heap = before.heap
  /\ (last.op = "set" /\ ~SetResolved) =>
       /\ size = sizeBefore + 1
       /\ valueMap[size].key \notin DOMAIN before.heap
       /\ DOMAIN heap = DOMAIN before.heap \cup {valueMap[size].key}
       /\ Elements(heap[valueMap[size].key]) = Elements(last.key)
       /\ \A e \in Elements(last.key) :
            /\ e \in DOMAIN subkeyToKeys
            /\ subkeyToKeys[e] =
                 (IF e \in DOMAIN before.subkeyToKeys THEN before.subkeyToKeys[e] ELSE <<>>)
                   \o <<valueMap[size].key>>

(* C28 witness: set({1,2}, v) resolved to the stored key of {1,2} in a     *)
(* container that also holds {1}, and replaced its value.                  *)
C28_Witness ==
  /\ SetResolved
  /\ Elements(last.key) = {1, 2}
  /\ size = 2
  /\ <<1>> \in StoredKeys(Snapshot)
  /\ getNow(<<1, 2>>) = last.val
  /\ getBefore(<<1, 2>>) # last.val
  /\ Len(subkeyToKeys[1]) = 2


(* The rows of the candidate's elements, each filtered to the keys of the  *)
(* candidate's size, in the order of the candidate's elements: what        *)
(* potentialCanonicalKeys holds before it is sorted.                       *)
FilteredRows(key) ==
  [i \in DOMAIN key |-> FilterBySize(subkeyToKeys, heap, key[i], Len(key))]

(* The scan of lines 50-66 over the lists in a given order. *)
Scan(lists) ==
  IF Len(lists) = 0 THEN NotFound ELSE FirstInEvery(lists[1], 1, lists)

(* The orders n lists can be put in. *)
Orders(n) == {o \in [1..n -> 1..n] : \A i, j \in 1..n : o[i] = o[j] => i = j}

(* C29: in every reachable state and for every candidate, the scan returns *)
(* the same key, or the same not-found, in whichever order the filtered    *)
(* rows are put (sorted by length as the code does, left as they are, or   *)
(* permuted in any way).                                                   *)
C29_RowOrderIrrelevant ==
  \A K \in KeySeqs :
    /\ Scan(SortByLength(FilteredRows(K))) = Canonical(K)
    /\ \A o \in Orders(Len(K)) :
         Scan([i \in DOMAIN K |-> FilteredRows(K)[o[i]]]) = Canonical(K)

(* C29 witness: get of a caller's {1,2} found its value; the row of 1      *)
(* holds two keys of size 2, the first of which is not the key found, and  *)
(* the row of 2 holds one, so the sort moves the row of 2 to the front.    *)
C29_Witness ==
  /\ last.op = "get" /\ last.key = <<1, 2>> /\ last.ret \in Vals
  /\ Len(FilteredRows(<<1, 2>>)[1]) = 2
  /\ Len(FilteredRows(<<1, 2>>)[2]) = 1
  /\ FilteredRows(<<1, 2>>)[1][1] # Canonical(<<1, 2>>)
  /\ SortByLength(FilteredRows(<<1, 2>>)) # FilteredRows(<<1, 2>>)


(* getCannonicalKey without the early return of lines 31-34: the search   *)
(* of lines 36-66 alone, which reads the elements of the candidate and not *)
(* its identity.                                                           *)
withoutFastPath(vm, idx, hp, subkeys) ==
  LET potentialCanonicalKeys ==
        SortByLength([i \in DOMAIN subkeys |->
                        FilterBySize(idx, hp, subkeys[i], Len(subkeys))])
  IN IF Len(potentialCanonicalKeys) = 0 THEN NotFound
     ELSE FirstInEvery(potentialCanonicalKeys[1], 1, potentialCanonicalKeys)

(* C30: for every Set object the caller holds, made by the caller or       *)
(* handed out by the container, changed by the caller or not,              *)
(* getCannonicalKey gives the result it gives without the valueMap.has     *)
(* early return, so get and has of that object give the same results       *)
(* without it.                                                             *)
C30_FastPathIrrelevant ==
  held # <<>> =>
    /\ getCannonicalKey(valueMap, subkeyToKeys, heap, held[1].ref, heap[held[1].ref])
         = withoutFastPath(valueMap, subkeyToKeys, heap, heap[held[1].ref])
    /\ has(valueMap, subkeyToKeys, heap, held[1].ref, heap[held[1].ref])
         = (withoutFastPath(valueMap, subkeyToKeys, heap, heap[held[1].ref]) # NotFound)
    /\ get(valueMap, subkeyToKeys, heap, held[1].ref, heap[held[1].ref])
         = IF withoutFastPath(valueMap, subkeyToKeys, heap, heap[held[1].ref]) = NotFound
           THEN Undefined
           ELSE MapGet(valueMap, withoutFastPath(valueMap, subkeyToKeys, heap,
                                                 heap[held[1].ref]))

(* C30 witness: get with a key the container handed out found the value of *)
(* the stored key with its elements, in a container of two entries; the    *)
(* object is no key of valueMap, so the search found it.                   *)
C30_Witness ==
  /\ held # <<>>
  /\ held[1].from = "container"
  /\ last.op = "get"
  /\ last.ret \in Vals
  /\ size = 2
  /\ withoutFastPath(valueMap, subkeyToKeys, heap, heap[held[1].ref]) # NotFound


(* ------------------------------ iterators ------------------------------ *)
MaxIters == 2

(* The generators of the container. *)
IterKinds == {"keys", "values", "entries", "iterator"}

(* What a generator of a kind yields for the pos-th entry of valueMap:     *)
(* keys() a key copy, values() the value, entries() and the iterator the   *)
(* pair of both.  Copies are given by their elements in insertion order.   *)
Yielded(kind, vm, hp, pos) ==
  IF kind = "keys" THEN LET k == keys(vm, hp) IN k.heap[k.out[pos]]
  ELSE IF kind = "values" THEN values(vm)[pos]
  ELSE Pairs(vm, hp)[pos]

(* Mutant: one position in valueMap shared by all open iterators. *)
sharedCursor(its, j) ==
  CHOOSE n \in {its[i].next : i \in DOMAIN its} : \A i \in DOMAIN its : its[i].next <= n

(* for (const ... of this.valueMap.keys() / .values() / .entries()): each  *)
(* generator call iterates valueMap with a Map iterator of its own.        *)
cursor(its, j) == its[j].next

(* it = keys(), values(), entries() or [Symbol.iterator](): a generator    *)
(* object that has not run yet.                                            *)
Open(kind) ==
  /\ Len(iters) < MaxIters
  /\ iters' = Append(iters, [kind |-> kind, next |-> 1, out |-> <<>>, done |-> FALSE])
  /\ UNCHANGED <<valueMap, subkeyToKeys, heap, last, before, held, derived, pending, loop>>

(* it.next() on the j-th open iterator: the generator runs to its next     *)
(* yield, or returns when valueMap has no further entry.                   *)
Advance(j) ==
  /\ j \in DOMAIN iters
  /\ ~iters[j].done
  /\ LET pos == cursor(iters, j)
     IN iters' =
          [iters EXCEPT ![j] =
             IF pos > Len(valueMap)
             THEN [@ EXCEPT !.done = TRUE]
             ELSE [@ EXCEPT !.out = Append(@, Yielded(iters[j].kind, valueMap, heap, pos)),
                            !.next = pos + 1]]
  /\ UNCHANGED <<valueMap, subkeyToKeys, heap, last, before, held, derived, pending, loop>>

(* The caller lets go of its iterators. *)
DropIterators ==
  /\ iters # <<>>
  /\ iters' = <<>>
  /\ UNCHANGED <<valueMap, subkeyToKeys, heap, last, before, held, derived, pending, loop>>

(* The container is mutated only while no iterator is open. *)
NextIter ==
  \/ \E key \in NestedKeys, value \in Vals : iters = <<>> /\ SetOn("source", key, value)
  \/ \E key \in NestedKeys : iters = <<>> /\ DeleteOn("source", key)
  \/ iters = <<>> /\ ClearOn("source")
  \/ \E kind \in IterKinds : Open(kind)
  \/ \E j \in 1..MaxIters : Advance(j)
  \/ DropIterators

SpecIter == Init /\ [][NextIter]_vars

(* Everything a generator of a kind yields in the present state. *)
AllYielded(kind) == [pos \in DOMAIN valueMap |-> Yielded(kind, valueMap, heap, pos)]

(* C21: while the container is not mutated, what an iterator of keys(),    *)
(* values(), entries() or [Symbol.iterator]() has yielded is a prefix of   *)
(* one item per stored entry in valueMap order, and when it is done it has *)
(* yielded exactly size items, none repeated or omitted; iterators of the  *)
(* same kind yield the same sequence, however their steps interleave.      *)
C21_Iteration ==
  /\ \A j \in DOMAIN iters :
       /\ Len(AllYielded(iters[j].kind)) = size
       /\ Len(iters[j].out) <= size
       /\ iters[j].out = SubSeq(AllYielded(iters[j].kind), 1, Len(iters[j].out))
       /\ iters[j].done => Len(iters[j].out) = size
  /\ \A i, j \in DOMAIN iters :
       (iters[i].kind = iters[j].kind /\ iters[i].done /\ iters[j].done) =>
         iters[i].out = iters[j].out

(* C21 witness: two entries() iterators open on a container of two         *)
(* entries; the second has run to its end while the first has yielded one  *)
(* item and is still to be advanced.                                       *)
C21_Witness ==
  /\ size = 2
  /\ Len(iters) = 2
  /\ iters[1].kind = "entries"
  /\ iters[2].kind = "entries"
  /\ ~iters[1].done
  /\ Len(iters[1].out) = 1
  /\ iters[2].done
  /\ Len(iters[2].out) = 2


(* ------------------- set and delete, write by write -------------------- *)
(* Mutant: user code that may run at any point of a set or delete. *)
userCodeAlways(writes) == TRUE

(* set (lines 79-99) and delete (lines 102-131) call no callback and do    *)
(* not yield or await, and JavaScript runs a call to completion: user code *)
(* (another public operation, a callback, the code between two steps of an *)
(* iterator) runs only when no write of a set or delete is outstanding.    *)
userCodeMayRun(writes) == writes = <<>>

(* The writes to subkeyToKeys a set makes after valueMap.set(canonicalKey, *)
(* value): one push per element of the canonical key.                      *)
Pushes(subkeys, canonicalKey) ==
  [i \in DOMAIN subkeys |-> [write |-> "push", subkey |-> subkeys[i], key |-> canonicalKey]]

(* The writes a delete makes once the key is found: one filtered row per   *)
(* element of the canonical key, then valueMap.delete(canonicalKey).       *)
Removals(subkeys, canonicalKey) ==
  [i \in DOMAIN subkeys |-> [write |-> "filter", subkey |-> subkeys[i], key |-> canonicalKey]]
    \o <<[write |-> "delete", subkey |-> 0, key |-> canonicalKey]>>

(* set(key, value) up to and including its write to valueMap. *)
SetBegin(key, value) ==
  /\ userCodeMayRun(pending)
  /\ LET existingCanonicalKey == getCannonicalKey(valueMap, subkeyToKeys, heap, CallerSet, key)
         canonicalKey == canonicalKeyObject(heap, CallerSet)
     IN IF existingCanonicalKey # NotFound
        THEN /\ valueMap' = MapSet(valueMap, existingCanonicalKey, value)
             /\ UNCHANGED <<heap, pending>>
        ELSE /\ Len(valueMap) < MaxKeys
             /\ valueMap' = MapSet(valueMap, canonicalKey, value)
             /\ heap' = [k \in DOMAIN heap \cup {canonicalKey} |->
                           IF k = canonicalKey THEN createCanonicalKey(key) ELSE heap[k]]
             /\ pending' = Pushes(createCanonicalKey(key), canonicalKey) \o pending
  /\ last' = [op |-> "set", key |-> key, val |-> value, ret |-> Undefined]
  /\ UNCHANGED <<subkeyToKeys, before, held, derived, iters, loop>>

(* keyList.push(canonicalKey); this.subkeyToKeys.set(subkey, keyList) *)
IndexPush ==
  /\ pending # <<>>
  /\ Head(pending).write = "push"
  /\ subkeyToKeys' = register(subkeyToKeys, <<Head(pending).subkey>>, 1, Head(pending).key)
  /\ pending' = Tail(pending)
  /\ UNCHANGED <<valueMap, heap, last, before, held, derived, iters, loop>>

(* delete(key) up to its first write. *)
DeleteBegin(key) ==
  /\ userCodeMayRun(pending)
  /\ LET canonicalKey == getCannonicalKey(valueMap, subkeyToKeys, heap, CallerSet, key)
     IN IF canonicalKey = NotFound
        THEN /\ last' = [op |-> "delete", key |-> key, val |-> Undefined, ret |-> FALSE]
             /\ UNCHANGED pending
        ELSE /\ last' = [op |-> "delete", key |-> key, val |-> Undefined, ret |-> TRUE]
             /\ pending' = Removals(heap[canonicalKey], canonicalKey) \o pending
  /\ UNCHANGED <<valueMap, subkeyToKeys, heap, before, held, derived, iters, loop>>

(* this.subkeyToKeys.set(subkey, newkeylist) or .delete(subkey) *)
IndexFilter ==
  /\ pending # <<>>
  /\ Head(pending).write = "filter"
  /\ subkeyToKeys' = unregister(subkeyToKeys, <<Head(pending).subkey>>, 1, Head(pending).key)
  /\ pending' = Tail(pending)
  /\ UNCHANGED <<valueMap, heap, last, before, held, derived, iters, loop>>

(* this.valueMap.delete(canonicalKey); the object is no longer referenced. *)
StoreDelete ==
  /\ pending # <<>>
  /\ Head(pending).write = "delete"
  /\ valueMap' = RenamedMap(MapDelete(valueMap, Head(pending).key), subkeyToKeys)
  /\ subkeyToKeys' = RenamedIndex(MapDelete(valueMap, Head(pending).key), subkeyToKeys)
  /\ heap' = RenamedHeap(MapDelete(valueMap, Head(pending).key), subkeyToKeys, heap)
  /\ pending' = Tail(pending)
  /\ UNCHANGED <<last, before, held, derived, iters, loop>>

(* User code calls get(key). *)
GetBetween(key) ==
  /\ userCodeMayRun(pending)
  /\ last' = [op |-> "get", key |-> key, val |-> Undefined,
              ret |-> get(valueMap, subkeyToKeys, heap, CallerSet, key)]
  /\ UNCHANGED <<valueMap, subkeyToKeys, heap, before, held, derived, iters, pending, loop>>

(* User code calls has(key). *)
HasBetween(key) ==
  /\ userCodeMayRun(pending)
  /\ last' = [op |-> "has", key |-> key, val |-> Undefined,
              ret |-> has(valueMap, subkeyToKeys, heap, CallerSet, key)]
  /\ UNCHANGED <<valueMap, subkeyToKeys, heap, before, held, derived, iters, pending, loop>>

(* The callback of forEach, every, some, filter, find, map, flatMap,       *)
(* mapOver, reduce or reduceRight is called with the i-th entry.           *)
Callback(i) ==
  /\ userCodeMayRun(pending)
  /\ i \in DOMAIN valueMap
  /\ last' = [op |-> "callback", key |-> Pairs(valueMap, heap)[i].key,
              val |-> Pairs(valueMap, heap)[i].val, ret |-> Undefined]
  /\ UNCHANGED <<valueMap, subkeyToKeys, heap, before, held, derived, iters, pending, loop>>

(* A generator of keys(), values() or entries() yields its i-th item and   *)
(* the caller's code runs until it asks for the next.                      *)
Yield(i) ==
  /\ userCodeMayRun(pending)
  /\ i \in DOMAIN valueMap
  /\ last' = [op |-> "yield", key |-> Pairs(valueMap, heap)[i].key,
              val |-> Pairs(valueMap, heap)[i].val, ret |-> Undefined]
  /\ UNCHANGED <<valueMap, subkeyToKeys, heap, before, held, derived, iters, pending, loop>>

NextSteps ==
  \/ \E key \in KeySeqs, value \in Vals : SetBegin(key, value)
  \/ IndexPush
  \/ \E key \in KeySeqs : DeleteBegin(key)
  \/ IndexFilter
  \/ StoreDelete
  \/ \E key \in KeySeqs : GetBetween(key)
  \/ \E key \in KeySeqs : HasBetween(key)
  \/ \E i \in 1..MaxKeys : Callback(i)
  \/ \E i \in 1..MaxKeys : Yield(i)

SpecSteps == Init /\ [][NextSteps]_vars

(* The operations in which user code observes the container. *)
UserCode == {"get", "has", "callback", "yield"}

(* Store and index agree: a stored key is in the row of e iff e is one of  *)
(* its elements, every row is non-empty and lists only stored keys.        *)
IndexConsistent ==
  /\ \A i \in DOMAIN valueMap : \A e \in Elems :
       e \in Elements(heap[valueMap[i].key])
         <=> (e \in DOMAIN subkeyToKeys /\ Includes(subkeyToKeys[e], valueMap[i].key))
  /\ \A e \in DOMAIN subkeyToKeys :
       /\ subkeyToKeys[e] # <<>>
       /\ \A n \in DOMAIN subkeyToKeys[e] : MapHas(valueMap, subkeyToKeys[e][n])

(* C26: user code (a public operation, a callback, the code between two    *)
(* iterator steps) never runs between the valueMap write and the index     *)
(* writes of a set, nor between the index removals and the valueMap        *)
(* removal of a delete; wherever it runs, and whenever no set or delete is *)
(* in progress, store and index agree.                                     *)
C26_StoreAndIndexAsOneUnit ==
  /\ last.op \in UserCode => (pending = <<>> /\ IndexConsistent)
  /\ pending = <<>> => IndexConsistent
  /\ pending # <<>> => last.op \in {"set", "delete"}

(* C26 witness: a delete of a stored key of two elements has filtered the  *)
(* row of its first element and not yet the second; store and index        *)
(* disagree, and no user code runs.                                        *)
C26_Witness ==
  /\ last.op = "delete"
  /\ Len(pending) = 2
  /\ Head(pending).write = "filter"
  /\ size = 2
  /\ ~IndexConsistent


(* --------------------- entries and their retrieval --------------------- *)
(* C32: in every reachable state, for every pair [k, v] that entries()     *)
(* yields, has(k) is true and get(k) returns v.                            *)
C32_YieldedKeysRetrievable ==
  \A i \in DOMAIN Pairs(valueMap, heap) :
    /\ hasNow(Pairs(valueMap, heap)[i].key)
    /\ getNow(Pairs(valueMap, heap)[i].key) = Pairs(valueMap, heap)[i].val

(* C32 for the pairs whose key has at least one element. *)
C32_NonEmptyKeys ==
  \A i \in DOMAIN Pairs(valueMap, heap) :
    Len(Pairs(valueMap, heap)[i].key) > 0 =>
      /\ hasNow(Pairs(valueMap, heap)[i].key)
      /\ getNow(Pairs(valueMap, heap)[i].key) = Pairs(valueMap, heap)[i].val


(* --------------------------- iteration order --------------------------- *)
(* The elements of the stored keys of a container state, by position. *)
KeysInOrder(c) == [i \in DOMAIN c.valueMap |-> Elements(c.heap[c.valueMap[i].key])]

(* seq without its q-th item. *)
Without(seq, q) == [i \in 1..(Len(seq) - 1) |-> IF i < q THEN seq[i] ELSE seq[i + 1]]

(* C35: entries are visited in the order in which their canonical keys     *)
(* were first inserted: a set that overwrites leaves every entry at its    *)
(* position, a set that creates an entry puts it last, a delete removes    *)
(* one entry, leaves the others in their order and leaves the key          *)
(* unresolved, so that a set of an equivalent key after it puts the entry  *)
(* last; keys(), values() and entries() visit the entries in that one      *)
(* order.                                                                  *)
C35_InsertionOrder ==
  /\ SetResolved => KeysInOrder(Snapshot) = KeysInOrder(before)
  /\ (last.op = "set" /\ ~SetResolved) =>
       /\ KeysInOrder(Snapshot) = Append(KeysInOrder(before), Elements(last.key))
       /\ valueMap[size].val = last.val
  /\ (last.op = "delete" /\ last.ret = TRUE) =>
       /\ \E q \in DOMAIN before.valueMap :
            /\ Elements(before.heap[before.valueMap[q].key]) = Elements(last.key)
            /\ KeysInOrder(Snapshot) = Without(KeysInOrder(before), q)
            /\ values(valueMap) = Without(values(before.valueMap), q)
       /\ Canonical(last.key) = NotFound
  /\ last.op \in {"keys", "values", "entries", "iterator"} => Len(last.ret) = size
  /\ last.op = "keys" =>
       \A i \in 1..size : Elements(last.ret[i]) = KeysInOrder(Snapshot)[i]
  /\ last.op = "values" =>
       \A i \in 1..size : last.ret[i] = valueMap[i].val
  /\ last.op \in {"entries", "iterator"} =>
       \A i \in 1..size : /\ Elements(last.ret[i].key) = KeysInOrder(Snapshot)[i]
                          /\ last.ret[i].val = valueMap[i].val

(* C35 witness: set overwrote the value of the first of two entries, and   *)
(* the entry is still the first.                                           *)
C35_Witness ==
  /\ SetResolved
  /\ size = 2
  /\ Elements(heap[valueMap[1].key]) = Elements(last.key)
  /\ valueMap[1].val = last.val
  /\ before.valueMap[1].val # last.val


(* ----------------------------- row contents ---------------------------- *)
(* The sum of f[x] over the domain of the function or sequence f. *)
RECURSIVE Sum(_)
Sum(f) ==
  IF DOMAIN f = {} THEN 0
  ELSE LET x == CHOOSE y \in DOMAIN f : TRUE
       IN f[x] + Sum([y \in DOMAIN f \ {x} |-> f[y]])

(* C36: in every reachable state no row of subkeyToKeys holds a canonical  *)
(* key twice, and the lengths of the rows add up to the cardinalities of   *)
(* the canonical keys of valueMap.                                         *)
C36_NoDuplicatesInRows ==
  /\ \A e \in DOMAIN subkeyToKeys : \A m, n \in DOMAIN subkeyToKeys[e] :
       subkeyToKeys[e][m] = subkeyToKeys[e][n] => m = n
  /\ Sum([e \in DOMAIN subkeyToKeys |-> Len(subkeyToKeys[e])])
       = Sum([i \in DOMAIN valueMap |-> Cardinality(Elements(heap[valueMap[i].key]))])

(* C36 witness: after a set that resolved, {1,2} and {1,2,3} are stored:   *)
(* the rows of 1 and 2 hold two keys each and the row of 3 one.            *)
C36_Witness ==
  /\ SetResolved
  /\ {Elements(k) : k \in StoredKeys(Snapshot)} = {{1, 2}, {1, 2, 3}}
  /\ Len(subkeyToKeys[1]) = 2
  /\ Len(subkeyToKeys[2]) = 2
  /\ Len(subkeyToKeys[3]) = 1


(* ------------------- callback loops, call by call ---------------------- *)
MaxCalls == 3

(* The operations that call a callback for the pairs of entries(). *)
LoopOps ==
  {"forEach", "every", "some", "filter", "find", "map", "flatMap", "mapOver", "reduce",
   "reduceRight"}

(* Mutant: a loop that returns after its first call of the callback. *)
stopsAlways(op, verdict) == TRUE

(* The return inside the loop: every returns at a falsy result, some and   *)
(* find at a truthy one; the other loops have none.                        *)
stops(op, verdict) ==
  \/ op = "every" /\ ~verdict
  \/ op \in {"some", "find"} /\ verdict

(* What a callback does to the key object it is passed: nothing, or it     *)
(* adds the largest element the caller uses, or it removes the smallest.   *)
Edits ==
  {[do |-> "nothing", e |-> 1], [do |-> "add", e |-> NumHeldElems], [do |-> "delete", e |-> 1]}

(* The elements of the key object after the callback ran: key.add(e),      *)
(* key.delete(e), or the elements it was created with.                     *)
Edited(contents, edit) ==
  IF edit.do = "add"
  THEN IF edit.e \in Elements(contents) THEN contents ELSE Append(contents, edit.e)
  ELSE IF edit.do = "delete"
       THEN SelectSeq(contents, LAMBDA x : x # edit.e)
       ELSE contents

(* Mutant: a clear that empties valueMap and leaves subkeyToKeys. *)
clearValuesOnly(vm, idx) == [valueMap |-> <<>>, subkeyToKeys |-> idx]

(* clear(): this.valueMap.clear(); this.subkeyToKeys.clear() *)
clear(vm, idx) == [valueMap |-> <<>>, subkeyToKeys |-> <<>>]

(* A callback of the loop in progress is running. *)
InCallback == loop # <<>> /\ ~loop[1].done /\ loop[1].calls > 0

(* The loop in progress after its callback changed the container. *)
Mutated(lp) == IF lp = <<>> THEN lp ELSE <<[lp[1] EXCEPT !.mutated = TRUE]>>

(* c.forEach(...), c.every(...), ...: the operation starts; for filter and *)
(* mapOver, const result = new SetKeyedMap() is the second container.      *)
LoopBegin(op) ==
  /\ loop = <<>>
  /\ loop' = <<[op |-> op, next |-> 1, calls |-> 0, done |-> FALSE,
                mutated |-> FALSE, edited |-> FALSE]>>
  /\ UNCHANGED <<valueMap, subkeyToKeys, heap, last, before, held, derived, iters, pending>>

(* One turn of for (const [key, value] of this.entries()): the generator   *)
(* yields a copy of the next key of valueMap with its value, or ends the   *)
(* loop; the callback is called with them, does `edit` to the key object   *)
(* and returns `verdict` (every, some, filter, find) or `value` (mapOver); *)
(* filter and mapOver then call result.set with that key object; `edited`  *)
(* records that the callback had changed a key object given to result.set. *)
LoopStep(verdict, value, edit) ==
  /\ loop # <<>>
  /\ ~loop[1].done
  /\ IF loop[1].next > Len(valueMap)
     THEN /\ loop' = <<[loop[1] EXCEPT !.done = TRUE]>>
          /\ UNCHANGED <<valueMap, subkeyToKeys, heap, derived>>
     ELSE /\ loop[1].calls < MaxCalls
          /\ LET entry  == valueMap[loop[1].next]
                 key    == createUserFacingKey(heap, entry.key)
                 passed == Edited(heap[entry.key], edit)
                 hp     == [k \in DOMAIN heap \cup {key} |-> IF k = key THEN passed ELSE heap[k]]
                 result ==
                   IF loop[1].op = "filter" /\ verdict
                   THEN set(derived.valueMap, derived.subkeyToKeys, hp, key, passed, entry.val)
                   ELSE IF loop[1].op = "mapOver"
                        THEN set(derived.valueMap, derived.subkeyToKeys, hp, key, passed, value)
                        ELSE [valueMap |-> derived.valueMap,
                              subkeyToKeys |-> derived.subkeyToKeys, heap |-> hp]
             IN /\ \E r \in {Reclaimed(World(valueMap, subkeyToKeys, result.heap, <<>>,
                                             [valueMap |-> result.valueMap,
                                              subkeyToKeys |-> result.subkeyToKeys]))} :
                     /\ valueMap' = r.valueMap
                     /\ subkeyToKeys' = r.subkeyToKeys
                     /\ heap' = r.heap
                     /\ derived' = r.derived
                /\ loop' = <<[loop[1] EXCEPT !.next = @ + 1,
                                             !.calls = @ + 1,
                                             !.done = stops(loop[1].op, verdict),
                                             !.edited =
                                               @ \/ ( /\ passed # heap[entry.key]
                                                      /\ \/ loop[1].op = "mapOver"
                                                         \/ loop[1].op = "filter" /\ verdict )]>>
  /\ UNCHANGED <<last, before, held, iters, pending>>

(* The operation has returned and the caller lets go of its result. *)
LoopReturn ==
  /\ loop # <<>>
  /\ loop[1].done
  /\ loop' = <<>>
  /\ \E r \in {Reclaimed(World(valueMap, subkeyToKeys, heap, <<>>, EmptyContainer))} :
       /\ valueMap' = r.valueMap
       /\ subkeyToKeys' = r.subkeyToKeys
       /\ heap' = r.heap
       /\ derived' = r.derived
  /\ UNCHANGED <<last, before, held, iters, pending>>

(* set(key, value) on the container, by the caller between operations or   *)
(* by the callback of the loop in progress.                                *)
SetInLoop(key, value) ==
  /\ loop = <<>> \/ InCallback
  /\ LET after == set(valueMap, subkeyToKeys, heap, CallerSet, key, value)
     IN /\ Len(after.valueMap) <= MaxKeys
        /\ \E r \in {Reclaimed(World(after.valueMap, after.subkeyToKeys, after.heap, <<>>,
                                     derived))} :
             /\ valueMap' = r.valueMap
             /\ subkeyToKeys' = r.subkeyToKeys
             /\ heap' = r.heap
             /\ derived' = r.derived
  /\ loop' = Mutated(loop)
  /\ UNCHANGED <<last, before, held, iters, pending>>

(* delete(key) likewise.  The Map iterator of the loop counts the entries  *)
(* it has passed: when one of them is removed, the position of the next    *)
(* entry in valueMap moves down by one.                                    *)
DeleteInLoop(key) ==
  /\ loop = <<>> \/ InCallback
  /\ LET canonicalKey == getCannonicalKey(valueMap, subkeyToKeys, heap, CallerSet, key)
         after == delete(valueMap, subkeyToKeys, heap, CallerSet, key)
     IN /\ \E r \in {Reclaimed(World(after.valueMap, after.subkeyToKeys, heap, <<>>, derived))} :
             /\ valueMap' = r.valueMap
             /\ subkeyToKeys' = r.subkeyToKeys
             /\ heap' = r.heap
             /\ derived' = r.derived
        /\ loop' =
             IF loop = <<>> \/ ~after.ret THEN loop
             ELSE <<[loop[1] EXCEPT
                       !.mutated = TRUE,
                       !.next = IF \E q \in 1..(@ - 1) : valueMap[q].key = canonicalKey
                                THEN @ - 1 ELSE @]>>
  /\ UNCHANGED <<last, before, held, iters, pending>>

(* clear() likewise: the entries the Map iterator has passed are gone, and *)
(* an entry added afterwards is the next it visits.                        *)
ClearInLoop ==
  /\ loop = <<>> \/ InCallback
  /\ \E r \in {Reclaimed(World(clear(valueMap, subkeyToKeys).valueMap,
                               clear(valueMap, subkeyToKeys).subkeyToKeys,
                               heap, <<>>, derived))} :
       /\ valueMap' = r.valueMap
       /\ subkeyToKeys' = r.subkeyToKeys
       /\ heap' = r.heap
       /\ derived' = r.derived
  /\ loop' = IF loop = <<>> THEN loop
             ELSE <<[loop[1] EXCEPT !.mutated = TRUE, !.next = 1]>>
  /\ UNCHANGED <<last, before, held, iters, pending>>

NextLoop ==
  \/ \E op \in LoopOps : LoopBegin(op)
  \/ \E verdict \in BOOLEAN, value \in Vals, edit \in Edits : LoopStep(verdict, value, edit)
  \/ LoopReturn
  \/ \E key \in NestedKeys, value \in Vals : SetInLoop(key, value)
  \/ \E key \in NestedKeys : DeleteInLoop(key)
  \/ ClearInLoop

SpecLoop == Init /\ [][NextLoop]_vars

(* The loops that have no return inside the loop. *)
FullLoops == {"forEach", "map", "flatMap", "filter", "mapOver", "reduce", "reduceRight"}

(* C31: with a callback that does not mutate the container, forEach, map,  *)
(* flatMap, filter, mapOver, reduce and reduceRight return after exactly   *)
(* size calls of the callback, every, some and find after at most size     *)
(* calls, and no loop has made more than size calls at any point.          *)
C31_CallsBoundedBySize ==
  (loop # <<>> /\ ~loop[1].mutated) =>
    /\ loop[1].calls <= size
    /\ loop[1].next = loop[1].calls + 1
    /\ (loop[1].done /\ loop[1].op \in FullLoops) => loop[1].calls = size

(* C31 witness: filter has returned from a container of two entries that   *)
(* its callback did not change, after two calls.                           *)
C31_Witness ==
  /\ loop # <<>>
  /\ loop[1].op = "filter"
  /\ loop[1].done
  /\ ~loop[1].mutated
  /\ size = 2
  /\ loop[1].calls = 2


(* The index idx agrees with the store vm: a stored key is in the row of e *)
(* iff e is one of its elements, and every row is non-empty and lists only *)
(* stored keys.                                                            *)
Agree(vm, idx) ==
  /\ \A i \in DOMAIN vm : \A e \in Elems :
       e \in Elements(heap[vm[i].key]) <=> (e \in DOMAIN idx /\ Includes(idx[e], vm[i].key))
  /\ \A e \in DOMAIN idx :
       /\ Len(idx[e]) > 0
       /\ \A n \in DOMAIN idx[e] : MapHas(vm, idx[e][n])

(* C33: when the callback of forEach, every, some, filter, find, map,      *)
(* mapOver or reduce has called set, delete or clear on the container      *)
(* being iterated, then at every callback boundary and after the operation *)
(* has returned subkeyToKeys agrees with valueMap, in the container and in *)
(* the result filter or mapOver is building.                               *)
C33_ReentrantMutation ==
  (loop # <<>> /\ loop[1].mutated) =>
    /\ Agree(valueMap, subkeyToKeys)
    /\ Agree(derived.valueMap, derived.subkeyToKeys)

(* C33 witness: filter has returned a result of two entries from a         *)
(* container whose callback removed an entry: one entry is left.           *)
C33_Witness ==
  /\ loop # <<>>
  /\ loop[1].op = "filter"
  /\ loop[1].done
  /\ loop[1].mutated
  /\ ~loop[1].edited
  /\ Len(derived.valueMap) = 2
  /\ size = 1


(* Every key of the result has the elements of a key of the container,    *)
(* and the result of a mapOver that has returned has the container's size. *)
DerivedFromSource ==
  /\ \A j \in DOMAIN derived.valueMap :
       \E i \in DOMAIN valueMap :
         Elements(heap[derived.valueMap[j].key]) = Elements(heap[valueMap[i].key])
  /\ (loop[1].op = "mapOver" /\ loop[1].done) => Len(derived.valueMap) = size

(* C34: whatever the callback does to the key object it is passed, every   *)
(* key of the container filter or mapOver returns has the element set of a *)
(* key of the source, and the result of mapOver has the size of the        *)
(* source; the callback leaves the source itself as it is.                 *)
C34_DerivedKeysFromSource ==
  (loop # <<>> /\ loop[1].op \in {"filter", "mapOver"} /\ ~loop[1].mutated) =>
    DerivedFromSource

(* What holds: C34 for a callback that leaves the key objects it is passed *)
(* as they are.                                                            *)
C34_UneditedKeys ==
  (loop # <<>> /\ loop[1].op \in {"filter", "mapOver"} /\ ~loop[1].mutated
     /\ ~loop[1].edited) =>
    DerivedFromSource

=============================================================================
